---- MODULE Spec2Model ----
(***************************************************************************)
(* The Orders panel (OrdersTab) of the seller dashboard,                   *)
(* src/src/pages/SellerDashboard.tsx.                                      *)
(*                                                                         *)
(* The panel is a React function component: its state is the useState      *)
(* cells, its operations are the async handlers and the onClick/onChange   *)
(* callbacks of the markup.  An async handler runs synchronously up to its *)
(* `await fetch(...)`; the rest of the handler (try tail, catch, finally)  *)
(* runs when the response settles.  Each of the two halves is one atomic   *)
(* step here, since JavaScript runs a continuation to completion and React *)
(* applies the functional setState updaters of one continuation in order.  *)
(* The backend is outside the repository: a request in flight may settle   *)
(* with any response.                                                      *)
(***************************************************************************)
EXTENDS Integers, Sequences, FiniteSets, Bags, TLC

\* ---------------------------------------------------------------- bounds
\* Requests that may be in flight together.
MaxInFlight == 2

\* Proof images the shipping draft may hold.
MaxProofImages == 1

\* Orders a fetched list may hold when the list controls are exercised.
MaxListLen == 3

\* The age, in days, up to which the clock runs on past an order's creation.
MaxAgeDays == 8

\* The largest available balance the wallet data may carry.
MaxAvailable == 2

\* ------------------------------------------------------------- universes
OrderIds == {"ORD-1", "ORD-2"}

\* Order.status (interface Order)
Statuses == {"pending", "accepted", "shipped", "completed", "dispute", "cancelled"}

\* The Order fields the panel's logic reads: id, buyerName, status, amount
\* and createdAt. createdAt is the instant its ISO string denotes, in whole
\* seconds; NoDate is the empty string.
NoDate == -1
FullOrder(id, buyerName, status, amount, createdAt) ==
    [id |-> id, buyerName |-> buyerName, status |-> status, amount |-> amount,
     createdAt |-> createdAt]

\* an order of which only id and status matter
Order(id, status) == FullOrder(id, "", status, 0, 0)

Orders == {Order(id, st) : id \in OrderIds, st \in Statuses}

\* selectedOrder = null (useState<Order | null>(null)); also what
\* setSelectedOrder(data.data) stores when the body carries no data.
NoOrder == FullOrder("", "", "null", 0, NoDate)

\* orders = null (useState<Order[] | null>(null)) against orders = [...]
NullOrders == [isNull |-> TRUE, list |-> <<>>]
OrderList(l) == [isNull |-> FALSE, list |-> l]

\* errorNotification / successNotification = null
Null == "<null>"

\* ------------------------------------------------------------- responses
\* A settled request: 2xx with a body, a non-2xx status, or a rejected
\* promise / throwing body parse carrying a message (possibly empty).
Ok(data) == [kind |-> "ok", msg |-> "", data |-> data]
Http == [kind |-> "http", msg |-> "", data |-> NoOrder]
Thrown(m) == [kind |-> "throw", msg |-> m, data |-> NoOrder]

\* Messages a rejected fetch may carry; "" is a failure without a message.
ThrownMessages == {"", "NetworkError"}

Failures == {Http} \cup {Thrown(m) : m \in ThrownMessages}

\* ------------------------------------------------- strings of the search
\* The characters of the strings the search reads: order ids, buyer names
\* and typed queries.
Chars(s) ==
    CASE s = "" -> <<>>
      [] s = "ORD-1" -> <<"O", "R", "D", "-", "1">>
      [] s = "ORD-2" -> <<"O", "R", "D", "-", "2">>
      [] s = "ORD-3" -> <<"O", "R", "D", "-", "3">>
      [] s = "Amina" -> <<"A", "m", "i", "n", "a">>
      [] s = "Dan" -> <<"D", "a", "n">>
      [] s = "ord" -> <<"o", "r", "d">>
      [] s = "D" -> <<"D">>
      [] s = "MIN" -> <<"M", "I", "N">>
      [] s = "2" -> <<"2">>
      [] s = " " -> <<" ">>

\* String.prototype.toLowerCase, on the letters above
LowerOf(c) ==
    CASE c = "A" -> "a" [] c = "D" -> "d" [] c = "I" -> "i" [] c = "M" -> "m"
      [] c = "N" -> "n" [] c = "O" -> "o" [] c = "R" -> "r" [] OTHER -> c

toLowerCase(cs) == [k \in 1..Len(cs) |-> LowerOf(cs[k])]

\* String.prototype.includes
includes(cs, part) ==
    \E k \in 0..(Len(cs) - Len(part)) : SubSeq(cs, k + 1, k + Len(part)) = part

\* ------------------------------------------------------- filteredOrders
\* filterStatus === 'all' || order.status === filterStatus
matchesFilter(order, status) == status = "all" \/ order.status = status

\* a search that compares the strings as typed
matchesSearch_CaseSensitive(order, query) ==
    \/ query = ""
    \/ includes(Chars(order.id), Chars(query))
    \/ includes(Chars(order.buyerName), Chars(query))

\* !searchQuery || id.toLowerCase().includes(q.toLowerCase()) || buyerName...
matchesSearch(order, query) ==
    \/ query = ""
    \/ includes(toLowerCase(Chars(order.id)), toLowerCase(Chars(query)))
    \/ includes(toLowerCase(Chars(order.buyerName)), toLowerCase(Chars(query)))

\* new Date(createdAt).getTime(), in milliseconds
getTime(createdAt) == createdAt * 1000

\* the comparator handed to sort; an unknown key compares everything equal
compare(a, b, key) ==
    CASE key = "newest" -> getTime(b.createdAt) - getTime(a.createdAt)
      [] key = "oldest" -> getTime(a.createdAt) - getTime(b.createdAt)
      [] key = "amount-high" -> b.amount - a.amount
      [] key = "amount-low" -> a.amount - b.amount
      [] OTHER -> 0

\* an insertion that puts the new element before the elements equal to it
RECURSIVE Insert_BeforeEqual(_, _, _)
Insert_BeforeEqual(sorted, x, key) ==
    IF sorted = <<>> \/ compare(sorted[Len(sorted)], x, key) < 0
    THEN Append(sorted, x)
    ELSE Append(Insert_BeforeEqual(SubSeq(sorted, 1, Len(sorted) - 1), x, key),
                sorted[Len(sorted)])

\* Array.prototype.sort is stable: an element goes after the elements that
\* do not compare greater than it.
RECURSIVE Insert(_, _, _)
Insert(sorted, x, key) ==
    IF sorted = <<>> \/ compare(sorted[Len(sorted)], x, key) <= 0
    THEN Append(sorted, x)
    ELSE Append(Insert(SubSeq(sorted, 1, Len(sorted) - 1), x, key), sorted[Len(sorted)])

RECURSIVE sort(_, _)
sort(list, key) ==
    IF list = <<>> THEN <<>>
    ELSE Insert(sort(SubSeq(list, 1, Len(list) - 1), key), list[Len(list)], key)

\* orders?.filter(...)?.sort(...) || []: filter returns a new array, which
\* sort orders in place and returns, so the held array is not written.
\* `orders` is what the held list is afterwards.
Visible(held, status, query, key) ==
    [orders |-> held,
     filteredOrders |->
        IF held.isNull THEN <<>>
        ELSE sort(SelectSeq(held.list,
                            LAMBDA o : matchesFilter(o, status) /\ matchesSearch(o, query)),
                  key)]

\* ------------------------------------------------------------ formatTime
\* toLocaleDateString('en-KE'): the calendar day of the timestamp
toLocaleDateString(createdAt) == "day " \o ToString(createdAt \div 86400)

\* formatTime without its `yesterday` line
formatTime_NoYesterday(dateString, clock) ==
    LET diffMs == clock - getTime(dateString)
        diffSecs == diffMs \div 1000
        diffMins == diffSecs \div 60
        diffHours == diffMins \div 60
        diffDays == diffHours \div 24
    IN  IF dateString = NoDate THEN "unknown"
        ELSE IF diffSecs < 60 THEN "just now"
        ELSE IF diffMins < 60 THEN ToString(diffMins) \o "m ago"
        ELSE IF diffHours < 24 THEN ToString(diffHours) \o "h ago"
        ELSE IF diffDays < 7 THEN ToString(diffDays) \o "d ago"
        ELSE toLocaleDateString(dateString)

\* formatTime(dateString) at the instant `clock` (new Date()), both in
\* milliseconds since the epoch; Math.floor is \div.
formatTime(dateString, clock) ==
    LET diffMs == clock - getTime(dateString)
        diffSecs == diffMs \div 1000
        diffMins == diffSecs \div 60
        diffHours == diffMins \div 60
        diffDays == diffHours \div 24
    IN  IF dateString = NoDate THEN "unknown"
        ELSE IF diffSecs < 60 THEN "just now"
        ELSE IF diffMins < 60 THEN ToString(diffMins) \o "m ago"
        ELSE IF diffHours < 24 THEN ToString(diffHours) \o "h ago"
        ELSE IF diffDays = 1 THEN "yesterday"
        ELSE IF diffDays < 7 THEN ToString(diffDays) \o "d ago"
        ELSE toLocaleDateString(dateString)

\* ------------------------------------------------------------------ state
VARIABLES
    mounted,            \* the mount effect has run
    orders,             \* useState<Order[] | null>
    selectedOrder,      \* useState<Order | null>
    ui,                 \* useState<UIState>
    shippingForm,       \* useState<ShippingFormState>
    messageInput,       \* useState('') as a sequence of characters
    performanceMetrics, \* useState<PerformanceMetrics | null>: "null" or "metrics"
    fetching,           \* list fetches awaiting their response, in dispatch order
    inflight,           \* the other requests awaiting their response, a bag
    torn,               \* the component was unmounted: the effect cleanups have run
    timers,             \* seconds left on the two auto-dismiss timers, 0 when none is pending
    ev,                 \* history: the handler step taken last
    filterStatus,       \* useState('all')
    searchQuery,        \* useState('')
    sortBy,             \* useState('newest')
    filteredOrders,     \* const filteredOrders of the last render
    now,                \* new Date().getTime() at the last render, in milliseconds
    createdLabel,       \* formatTime(selectedOrder.createdAt) of the last render
    activeTab,          \* SellerDashboard: useState('home')
    withdrawalModal,    \* SellerDashboard: useState(false)
    shareModal,         \* SellerDashboard: useState(false)
    withdrawalAmount,   \* SellerDashboard: useState('') as a sequence of characters
    wallet              \* SellerDashboard: useState<WalletData>, which has no setter

controls == <<filterStatus, searchQuery, sortBy>>
shell == <<activeTab, withdrawalModal, shareModal, withdrawalAmount, wallet>>

vars == <<mounted, orders, selectedOrder, ui, shippingForm, messageInput,
          performanceMetrics, fetching, inflight, torn, timers, ev,
          controls, filteredOrders, now, createdLabel, shell>>

\* setTimeout(..., 3000) and setTimeout(..., 5000), in seconds
SuccessDelay == 3
ErrorDelay == 5

NoTimers == [success |-> 0, error |-> 0]

\* an auto-dismiss effect without a dependency array: it runs, and restarts
\* the timer, after every render
Effect_NoDeps(old, new, left, delay) ==
    IF new # Null /\ new # "" THEN delay ELSE 0

\* One auto-dismiss effect after a render. React runs it only when its
\* dependency (the notification) has changed: the cleanup clears the pending
\* timer, and a timer is set if the new notification is truthy.
Effect(old, new, left, delay) ==
    IF new = old THEN left
    ELSE IF new # Null /\ new # "" THEN delay
    ELSE 0

\* the effects phase of the render that follows a step
Rendered ==
    timers' = [success |-> Effect(ui.successNotification, ui'.successNotification,
                                  timers.success, SuccessDelay),
               error |-> Effect(ui.errorNotification, ui'.errorNotification,
                                timers.error, ErrorDelay)]

\* A handler, a timer or a continuation of the component while it is not
\* unmounted, and the render that follows it.
Alive == ~torn /\ torn' = torn /\ Rendered

\* A step of OrdersTab that sets none of the three list controls: the
\* render that follows recomputes filteredOrders and the time label from
\* the new state. The dashboard shell is another component.
Live ==
    /\ Alive
    /\ UNCHANGED <<controls, now, shell>>
    /\ filteredOrders' = Visible(orders', filterStatus, searchQuery, sortBy).filteredOrders
    /\ createdLabel' = formatTime(selectedOrder'.createdAt, now)

\* WalletData of the shell: useState({ available: 0, pending: 0, total: 0 })
InitWallet == [available |-> 0, pending |-> 0, total |-> 0]

\* The useState initial values of the list controls and of the dashboard
\* shell, and the first render at instant 0.
Defaults ==
    /\ filterStatus = "all"
    /\ searchQuery = ""
    /\ sortBy = "newest"
    /\ filteredOrders = Visible(orders, "all", "", "newest").filteredOrders
    /\ now = 0
    /\ createdLabel = formatTime(selectedOrder.createdAt, 0)
    /\ activeTab = "home"
    /\ withdrawalModal = FALSE
    /\ shareModal = FALSE
    /\ withdrawalAmount = <<>>
    /\ wallet = InitWallet

\* useState initial values of OrdersTab
InitUi ==
    [loading |-> TRUE,
     orderDetailOpen |-> FALSE,
     shippingModalOpen |-> FALSE,
     proofUploadOpen |-> FALSE,
     messageModalOpen |-> FALSE,
     errorNotification |-> Null,
     successNotification |-> Null]

EmptyShippingForm ==
    [courierName |-> "",
     trackingNumber |-> "",
     estimatedDeliveryDate |-> "",
     notes |-> "",
     proofImages |-> <<>>]

\* fetch(url, ...): a request in flight. `by` tells a list fetch of the
\* mount effect, of the polling interval and of a handler apart. `stale` is
\* history: the `by` of a list fetch dispatched later whose response was
\* applied already, "" when there is none.
Request(kind, id, by) == [kind |-> kind, id |-> id, by |-> by, stale |-> ""]

\* history record: op names the handler half taken last, req the request it
\* dispatched from a click (or settled), res the response it settled with
Event(op, req, res) == [op |-> op, req |-> req, res |-> res]
NoResponse == [kind |-> "none", msg |-> "", data |-> NoOrder]
Click(id) == Request("", id, "")

Init ==
    /\ mounted = FALSE
    /\ orders = NullOrders
    /\ selectedOrder = NoOrder
    /\ ui = InitUi
    /\ shippingForm = EmptyShippingForm
    /\ messageInput = <<>>
    /\ performanceMetrics = "null"
    /\ fetching = <<>>
    /\ inflight = EmptyBag
    /\ torn = FALSE
    /\ timers = NoTimers
    /\ ev = Event("init", Click(""), NoResponse)
    /\ Defaults

\* ------------------------------------------------------------ the network
RemoveAt(s, i) == [j \in 1..(Len(s) - 1) |-> IF j < i THEN s[j] ELSE s[j + 1]]

Room(n) == Len(fetching) + BagCardinality(inflight) + n <= MaxInFlight

Send(bag, r) == bag (+) SetToBag({r})
Take(bag, r) == bag (-) SetToBag({r})
ListFetch(by) == Request("orders", "", by)


\* JavaScript `a || b` on strings: the empty string is falsy.
OrElse(a, b) == IF a # "" THEN a ELSE b

\* The message of the error the catch block receives: the handler's own
\* `throw new Error(text)` on a non-2xx response, else the rejection's.
CaughtMessage(res, text) == IF res.kind = "http" THEN text ELSE res.msg

\* ------------------------------------------------------------ fetchOrders
\* fetchOrders up to its await: setUi(loading: true, errorNotification: null)
fetchOrdersBegin(u) == [u EXCEPT !.loading = TRUE, !.errorNotification = Null]

\* `data.data || []`
DataOrEmpty(payload) == IF payload.isNull THEN <<>> ELSE payload.list

\* history: the list fetches dispatched before request i and still in flight
\* are overtaken by it.
Overtake(s, i) ==
    [j \in 1..Len(s) |->
        IF j < i THEN [s[j] EXCEPT !.stale = s[i].by] ELSE s[j]]

\* What a response to GET /orders leaves in `orders`.
ListOutcome(res) ==
    OrderList(IF res.kind = "ok" THEN DataOrEmpty(res.data) ELSE <<>>)

\* fetchOrders with a generation guard: the response of an overtaken fetch
\* is dropped.
fetchOrdersSettle_DropsStale(i, res) ==
    /\ i \in 1..Len(fetching)
    /\ orders' = IF fetching[i].stale # "" THEN orders ELSE ListOutcome(res)
    /\ ui' = [ui EXCEPT
         !.errorNotification =
             IF res.kind = "ok" \/ fetching[i].stale # "" THEN @
             ELSE OrElse(CaughtMessage(res, "Failed to fetch orders"),
                         "Failed to load orders. Please try again."),
         !.loading = FALSE]
    /\ fetching' = RemoveAt(Overtake(fetching, i), i)
    /\ ev' = Event("fetchOrders.settle", fetching[i], res)
    /\ UNCHANGED <<mounted, selectedOrder, shippingForm, messageInput, performanceMetrics,
                   inflight>>
    /\ Live

\* fetchOrders whose catch block lacks setOrders([]).
fetchOrdersSettle_KeepsList(i, res) ==
    /\ i \in 1..Len(fetching)
    /\ orders' = IF res.kind = "ok" THEN ListOutcome(res)
                 ELSE IF orders.isNull THEN OrderList(<<>>) ELSE orders
    /\ ui' = [ui EXCEPT
         !.errorNotification =
             IF res.kind = "ok" THEN @
             ELSE OrElse(CaughtMessage(res, "Failed to fetch orders"),
                         "Failed to load orders. Please try again."),
         !.loading = FALSE]
    /\ fetching' = RemoveAt(Overtake(fetching, i), i)
    /\ ev' = Event("fetchOrders.settle", fetching[i], res)
    /\ UNCHANGED <<mounted, selectedOrder, shippingForm, messageInput, performanceMetrics,
                   inflight>>
    /\ Live

\* fetchOrders whose try block clears the error notification on success.
fetchOrdersSettle_ClearsError(i, res) ==
    /\ i \in 1..Len(fetching)
    /\ orders' = ListOutcome(res)
    /\ ui' = [ui EXCEPT
         !.errorNotification =
             IF res.kind = "ok" THEN Null
             ELSE OrElse(CaughtMessage(res, "Failed to fetch orders"),
                         "Failed to load orders. Please try again."),
         !.loading = FALSE]
    /\ fetching' = RemoveAt(Overtake(fetching, i), i)
    /\ ev' = Event("fetchOrders.settle", fetching[i], res)
    /\ UNCHANGED <<mounted, selectedOrder, shippingForm, messageInput, performanceMetrics,
                   inflight>>
    /\ Live

\* fetchOrders with setOrders(data.data) in place of setOrders(data.data || [])
fetchOrdersSettle_NoDefault(i, res) ==
    /\ i \in 1..Len(fetching)
    /\ IF res.kind = "ok"
       THEN /\ orders' = res.data
            /\ ui' = [ui EXCEPT !.loading = FALSE]
       ELSE /\ orders' = OrderList(<<>>)
            /\ ui' = [ui EXCEPT
                 !.errorNotification =
                     OrElse(CaughtMessage(res, "Failed to fetch orders"),
                            "Failed to load orders. Please try again."),
                 !.loading = FALSE]
    /\ fetching' = RemoveAt(Overtake(fetching, i), i)
    /\ ev' = Event("fetchOrders.settle", fetching[i], res)
    /\ UNCHANGED <<mounted, selectedOrder, shippingForm, messageInput, performanceMetrics,
                   inflight>>
    /\ Live

\* fetchOrders after the await, for the response res of request i.
fetchOrdersSettle(i, res) ==
    /\ i \in 1..Len(fetching)
    /\ IF res.kind = "ok"
       THEN /\ orders' = OrderList(DataOrEmpty(res.data))
            /\ ui' = [ui EXCEPT !.loading = FALSE]
       ELSE /\ orders' = OrderList(<<>>)
            /\ ui' = [ui EXCEPT
                 !.errorNotification =
                     OrElse(CaughtMessage(res, "Failed to fetch orders"),
                            "Failed to load orders. Please try again."),
                 !.loading = FALSE]
    /\ fetching' = RemoveAt(Overtake(fetching, i), i)
    /\ ev' = Event("fetchOrders.settle", fetching[i], res)
    /\ UNCHANGED <<mounted, selectedOrder, shippingForm, messageInput, performanceMetrics,
                   inflight>>
    /\ Live

\* ------------------------------------------------------ fetchOrderDetails
\* fetchOrderDetails whose catch block is that of fetchOrders.
fetchOrderDetailsSettle_AsListFailure(r, res) ==
    /\ BagIn(r, inflight)
    /\ r.kind = "order"
    /\ IF res.kind = "ok"
       THEN /\ selectedOrder' = res.data
            /\ ui' = [ui EXCEPT !.orderDetailOpen = TRUE]
            /\ UNCHANGED orders
       ELSE /\ ui' = [ui EXCEPT !.errorNotification =
                         OrElse(CaughtMessage(res, "Failed to fetch order details"),
                                "Failed to load order details")]
            /\ orders' = OrderList(<<>>)
            /\ UNCHANGED selectedOrder
    /\ inflight' = Take(inflight, r)
    /\ ev' = Event("fetchOrderDetails.settle", r, res)
    /\ UNCHANGED <<mounted, shippingForm, messageInput, performanceMetrics, fetching>>
    /\ Live

\* a detail fetch that also writes the fetched order over its entry in the
\* held list
fetchOrderDetailsSettle_SyncsList(r, res) ==
    /\ BagIn(r, inflight)
    /\ r.kind = "order"
    /\ IF res.kind = "ok"
       THEN /\ selectedOrder' = res.data
            /\ ui' = [ui EXCEPT !.orderDetailOpen = TRUE]
            /\ orders' = [orders EXCEPT !.list =
                             [k \in DOMAIN orders.list |->
                                 IF orders.list[k].id = res.data.id THEN res.data
                                 ELSE orders.list[k]]]
       ELSE /\ ui' = [ui EXCEPT !.errorNotification = "Failed to load order details"]
            /\ UNCHANGED <<orders, selectedOrder>>
    /\ inflight' = Take(inflight, r)
    /\ ev' = Event("fetchOrderDetails.settle", r, res)
    /\ UNCHANGED <<mounted, shippingForm, messageInput, performanceMetrics, fetching>>
    /\ Live

\* fetchOrderDetails after the await, for the response res of request r.
fetchOrderDetailsSettle(r, res) ==
    /\ BagIn(r, inflight)
    /\ r.kind = "order"
    /\ IF res.kind = "ok"
       THEN /\ selectedOrder' = res.data
            /\ ui' = [ui EXCEPT !.orderDetailOpen = TRUE]
            /\ UNCHANGED orders
       ELSE /\ ui' = [ui EXCEPT !.errorNotification = "Failed to load order details"]
            /\ UNCHANGED <<orders, selectedOrder>>
    /\ inflight' = Take(inflight, r)
    /\ ev' = Event("fetchOrderDetails.settle", r, res)
    /\ UNCHANGED <<mounted, shippingForm, messageInput, performanceMetrics, fetching>>
    /\ Live

\* ------------------------------------------------ fetchPerformanceMetrics
\* a catch block that, like the other handlers', shows the failure
fetchPerformanceMetricsSettle_Notifies(r, res) ==
    /\ BagIn(r, inflight)
    /\ r.kind = "performance"
    /\ performanceMetrics' = IF res.kind = "ok" THEN "metrics" ELSE performanceMetrics
    /\ ui' = IF res.kind = "ok" THEN ui
             ELSE [ui EXCEPT !.errorNotification =
                      OrElse(CaughtMessage(res, "Failed to fetch metrics"),
                             "Failed to fetch metrics")]
    /\ inflight' = Take(inflight, r)
    /\ ev' = Event("fetchPerformanceMetrics.settle", r, res)
    /\ UNCHANGED <<mounted, orders, selectedOrder, shippingForm, messageInput, fetching>>
    /\ Live

fetchPerformanceMetricsSettle(r, res) ==
    /\ BagIn(r, inflight)
    /\ r.kind = "performance"
    /\ performanceMetrics' = IF res.kind = "ok" THEN "metrics" ELSE performanceMetrics
    /\ inflight' = Take(inflight, r)
    /\ ev' = Event("fetchPerformanceMetrics.settle", r, res)
    /\ UNCHANGED <<mounted, orders, selectedOrder, ui, shippingForm, messageInput,
                   fetching>>
    /\ Live

\* ----------------------------------------------------- mount and polling
\* useEffect: fetchOrders(); fetchPerformanceMetrics(); setInterval(...)
Mount ==
    /\ ~mounted
    /\ Room(2)
    /\ mounted' = TRUE
    /\ ui' = fetchOrdersBegin(ui)
    /\ fetching' = Append(fetching, ListFetch("mount"))
    /\ inflight' = Send(inflight, Request("performance", "", "mount"))
    /\ ev' = Event("mount", Click(""), NoResponse)
    /\ UNCHANGED <<orders, selectedOrder, shippingForm, messageInput, performanceMetrics>>
    /\ Live

\* a mount effect without `return () => clearInterval(interval)`: the
\* interval keeps firing after the unmount.
PollTick_NoCleanup ==
    /\ mounted
    /\ Room(1)
    /\ ui' = IF torn THEN ui ELSE fetchOrdersBegin(ui)
    /\ fetching' = Append(fetching, ListFetch("poll"))
    /\ torn' = torn
    /\ ev' = Event("poll", Click(""), NoResponse)
    /\ UNCHANGED <<mounted, orders, selectedOrder, shippingForm, messageInput,
                   performanceMetrics, inflight>>
    /\ UNCHANGED <<controls, filteredOrders, now, createdLabel, shell>>
    /\ Rendered

\* an interval callback that skips the tick while a list fetch is in flight
PollTick_SkipsWhenBusy ==
    /\ mounted
    /\ Room(1)
    /\ IF fetching # <<>>
       THEN UNCHANGED <<ui, fetching>>
       ELSE /\ ui' = fetchOrdersBegin(ui)
            /\ fetching' = Append(fetching, ListFetch("poll"))
    /\ ev' = Event("poll", Click(""), NoResponse)
    /\ UNCHANGED <<mounted, orders, selectedOrder, shippingForm, messageInput,
                   performanceMetrics, inflight>>
    /\ Live

\* an interval callback that refreshes the metrics along with the list
PollTick_RefetchesMetrics ==
    /\ mounted
    /\ Room(2)
    /\ ui' = fetchOrdersBegin(ui)
    /\ fetching' = Append(fetching, ListFetch("poll"))
    /\ inflight' = Send(inflight, Request("performance", "", "poll"))
    /\ ev' = Event("poll", Click(""), NoResponse)
    /\ UNCHANGED <<mounted, orders, selectedOrder, shippingForm, messageInput,
                   performanceMetrics>>
    /\ Live

\* the interval of setInterval(fetchOrders, 30000) fires
PollTick ==
    /\ mounted
    /\ Room(1)
    /\ ui' = fetchOrdersBegin(ui)
    /\ fetching' = Append(fetching, ListFetch("poll"))
    /\ ev' = Event("poll", Click(""), NoResponse)
    /\ UNCHANGED <<mounted, orders, selectedOrder, shippingForm, messageInput,
                   performanceMetrics, inflight>>
    /\ Live

\* ------------------------------------------------------------- order list
\* The cards are rendered from filteredOrders when !ui.loading; with the
\* filter at `all` and an empty search every held order has a card.
CardShown(o) ==
    /\ ~ui.loading
    /\ \E k \in 1..Len(orders.list) : orders.list[k] = o

\* card onClick / View Details: fetchOrderDetails(order.id)
ViewDetails(o) ==
    /\ mounted
    /\ CardShown(o)
    /\ Room(1)
    /\ inflight' = Send(inflight, Request("order", o.id, "viewDetails"))
    /\ ev' = Event("viewDetails", Click(o.id), NoResponse)
    /\ UNCHANGED <<mounted, orders, selectedOrder, ui, shippingForm, messageInput,
                   performanceMetrics, fetching>>
    /\ Live

\* card message button: setSelectedOrder(order); messageModalOpen: true
CardMessage(o) ==
    /\ mounted
    /\ CardShown(o)
    /\ selectedOrder' = o
    /\ ui' = [ui EXCEPT !.messageModalOpen = TRUE]
    /\ ev' = Event("cardMessage", Click(o.id), NoResponse)
    /\ UNCHANGED <<mounted, orders, shippingForm, messageInput, performanceMetrics,
                   fetching, inflight>>
    /\ Live


\* ------------------------------------------------------ order detail view
\* {ui.orderDetailOpen && <OrderDetailModal />}, which renders nothing
\* without a selected order.
DetailShown == ui.orderDetailOpen /\ selectedOrder # NoOrder

\* A footer whose Accept / Reject block is rendered for every status but
\* shipped, completed, dispute and cancelled.
OfferedActions_AcceptUntilShipped(o) ==
    (IF o.status \in {"pending", "accepted"} THEN {"reject", "accept"} ELSE {})
    \cup (IF o.status = "accepted" THEN {"shipping"} ELSE {})
    \cup (IF o.status = "shipped" THEN {"proof"} ELSE {})

\* Footer actions of OrderDetailModal, by selectedOrder.status.
OfferedActions(o) ==
    (IF o.status = "pending" THEN {"reject", "accept"} ELSE {})
    \cup (IF o.status = "accepted" THEN {"shipping"} ELSE {})
    \cup (IF o.status = "shipped" THEN {"proof"} ELSE {})

Offered(a) == DetailShown /\ a \in OfferedActions(selectedOrder)

\* X / Close: orderDetailOpen: false
CloseDetail ==
    /\ DetailShown
    /\ ui' = [ui EXCEPT !.orderDetailOpen = FALSE]
    /\ ev' = Event("closeDetail", Click(selectedOrder.id), NoResponse)
    /\ UNCHANGED <<mounted, orders, selectedOrder, shippingForm, messageInput,
                   performanceMetrics, fetching, inflight>>
    /\ Live

\* a Message button that switches from the detail view to the message modal
OpenMessage_Exclusive ==
    /\ DetailShown
    /\ ui' = [ui EXCEPT !.messageModalOpen = TRUE, !.orderDetailOpen = FALSE]
    /\ ev' = Event("openMessage", Click(selectedOrder.id), NoResponse)
    /\ UNCHANGED <<mounted, orders, selectedOrder, shippingForm, messageInput,
                   performanceMetrics, fetching, inflight>>
    /\ Live

\* Message button of the detail view: messageModalOpen: true
OpenMessage ==
    /\ DetailShown
    /\ ui' = [ui EXCEPT !.messageModalOpen = TRUE]
    /\ ev' = Event("openMessage", Click(selectedOrder.id), NoResponse)
    /\ UNCHANGED <<mounted, orders, selectedOrder, shippingForm, messageInput,
                   performanceMetrics, fetching, inflight>>
    /\ Live

\* Add Shipping Info: shippingModalOpen: true
OpenShipping ==
    /\ Offered("shipping")
    /\ ui' = [ui EXCEPT !.shippingModalOpen = TRUE]
    /\ ev' = Event("openShipping", Click(selectedOrder.id), NoResponse)
    /\ UNCHANGED <<mounted, orders, selectedOrder, shippingForm, messageInput,
                   performanceMetrics, fetching, inflight>>
    /\ Live

\* Update Proof: proofUploadOpen: true
OpenProof ==
    /\ Offered("proof")
    /\ ui' = [ui EXCEPT !.proofUploadOpen = TRUE]
    /\ ev' = Event("openProof", Click(selectedOrder.id), NoResponse)
    /\ UNCHANGED <<mounted, orders, selectedOrder, shippingForm, messageInput,
                   performanceMetrics, fetching, inflight>>
    /\ Live

\* ------------------------------------------------------------ acceptOrder
\* Accept Order: acceptOrder(selectedOrder.id) up to its await
acceptOrder ==
    /\ Offered("accept")
    /\ Room(1)
    /\ inflight' = Send(inflight, Request("accept", selectedOrder.id, "action"))
    /\ ev' = Event("acceptOrder", Click(selectedOrder.id), NoResponse)
    /\ UNCHANGED <<mounted, orders, selectedOrder, ui, shippingForm, messageInput,
                   performanceMetrics, fetching>>
    /\ Live

\* acceptOrder patching the selected order instead of waiting for the re-fetch.
acceptOrderSettle_Optimistic(r, res) ==
    /\ BagIn(r, inflight)
    /\ r.kind = "accept"
    /\ IF res.kind = "ok"
       THEN /\ Room(1)
            /\ ui' = fetchOrdersBegin(
                       [ui EXCEPT !.successNotification = "Order accepted successfully!"])
            /\ selectedOrder' = IF selectedOrder.id = r.id
                                THEN [selectedOrder EXCEPT !.status = "accepted"]
                                ELSE selectedOrder
            /\ fetching' = Append(fetching, ListFetch("action"))
            /\ inflight' = Send(Take(inflight, r), Request("order", r.id, "acceptOrder"))
       ELSE /\ ui' = [ui EXCEPT !.errorNotification =
                         OrElse(CaughtMessage(res, "Failed to accept order"),
                                "Failed to accept order")]
            /\ inflight' = Take(inflight, r)
            /\ UNCHANGED <<fetching, selectedOrder>>
    /\ ev' = Event("acceptOrder.settle", r, res)
    /\ UNCHANGED <<mounted, orders, shippingForm, messageInput, performanceMetrics>>
    /\ Live

\* acceptOrder re-fetching the list only.
acceptOrderSettle_ListOnly(r, res) ==
    /\ BagIn(r, inflight)
    /\ r.kind = "accept"
    /\ IF res.kind = "ok"
       THEN /\ ui' = fetchOrdersBegin(
                       [ui EXCEPT !.successNotification = "Order accepted successfully!"])
            /\ fetching' = Append(fetching, ListFetch("action"))
            /\ inflight' = Take(inflight, r)
       ELSE /\ ui' = [ui EXCEPT !.errorNotification =
                         OrElse(CaughtMessage(res, "Failed to accept order"),
                                "Failed to accept order")]
            /\ inflight' = Take(inflight, r)
            /\ UNCHANGED fetching
    /\ ev' = Event("acceptOrder.settle", r, res)
    /\ UNCHANGED <<mounted, orders, selectedOrder, shippingForm, messageInput,
                   performanceMetrics>>
    /\ Live

\* acceptOrder after the await; on success fetchOrders() and
\* fetchOrderDetails(orderId) run up to their awaits.
acceptOrderSettle(r, res) ==
    /\ BagIn(r, inflight)
    /\ r.kind = "accept"
    /\ IF res.kind = "ok"
       THEN /\ Room(1)
            /\ ui' = fetchOrdersBegin(
                       [ui EXCEPT !.successNotification = "Order accepted successfully!"])
            /\ fetching' = Append(fetching, ListFetch("action"))
            /\ inflight' = Send(Take(inflight, r), Request("order", r.id, "acceptOrder"))
       ELSE /\ ui' = [ui EXCEPT !.errorNotification =
                         OrElse(CaughtMessage(res, "Failed to accept order"),
                                "Failed to accept order")]
            /\ inflight' = Take(inflight, r)
            /\ UNCHANGED fetching
    /\ ev' = Event("acceptOrder.settle", r, res)
    /\ UNCHANGED <<mounted, orders, selectedOrder, shippingForm, messageInput,
                   performanceMetrics>>
    /\ Live

\* ------------------------------------------------------------ rejectOrder
rejectOrder ==
    /\ Offered("reject")
    /\ Room(1)
    /\ inflight' = Send(inflight, Request("reject", selectedOrder.id, "action"))
    /\ ev' = Event("rejectOrder", Click(selectedOrder.id), NoResponse)
    /\ UNCHANGED <<mounted, orders, selectedOrder, ui, shippingForm, messageInput,
                   performanceMetrics, fetching>>
    /\ Live

\* rejectOrder ending like acceptOrder: the detail view stays and is re-fetched.
rejectOrderSettle_AsAccept(r, res) ==
    /\ BagIn(r, inflight)
    /\ r.kind = "reject"
    /\ IF res.kind = "ok"
       THEN /\ ui' = fetchOrdersBegin([ui EXCEPT !.successNotification = "Order rejected"])
            /\ fetching' = Append(fetching, ListFetch("action"))
            /\ inflight' = Send(Take(inflight, r), Request("order", r.id, "rejectOrder"))
       ELSE /\ ui' = [ui EXCEPT !.errorNotification =
                         OrElse(CaughtMessage(res, "Failed to reject order"),
                                "Failed to reject order")]
            /\ inflight' = Take(inflight, r)
            /\ UNCHANGED fetching
    /\ ev' = Event("rejectOrder.settle", r, res)
    /\ UNCHANGED <<mounted, orders, selectedOrder, shippingForm, messageInput,
                   performanceMetrics>>
    /\ Live

\* rejectOrder after the await; on success fetchOrders() runs up to its await.
rejectOrderSettle(r, res) ==
    /\ BagIn(r, inflight)
    /\ r.kind = "reject"
    /\ IF res.kind = "ok"
       THEN /\ ui' = fetchOrdersBegin(
                       [ui EXCEPT !.successNotification = "Order rejected",
                                  !.orderDetailOpen = FALSE])
            /\ fetching' = Append(fetching, ListFetch("action"))
            /\ inflight' = Take(inflight, r)
       ELSE /\ ui' = [ui EXCEPT !.errorNotification =
                         OrElse(CaughtMessage(res, "Failed to reject order"),
                                "Failed to reject order")]
            /\ inflight' = Take(inflight, r)
            /\ UNCHANGED fetching
    /\ ev' = Event("rejectOrder.settle", r, res)
    /\ UNCHANGED <<mounted, orders, selectedOrder, shippingForm, messageInput,
                   performanceMetrics>>
    /\ Live


\* ---------------------------------------------------------- shipping form
\* {ui.shippingModalOpen && <ShippingModal />}
ShippingShown == ui.shippingModalOpen /\ selectedOrder # NoOrder

\* X / Cancel of the shipping modal
CloseShipping ==
    /\ ShippingShown
    /\ ui' = [ui EXCEPT !.shippingModalOpen = FALSE]
    /\ ev' = Event("closeShipping", Click(selectedOrder.id), NoResponse)
    /\ UNCHANGED <<mounted, orders, selectedOrder, shippingForm, messageInput,
                   performanceMetrics, fetching, inflight>>
    /\ Live

\* onChange of one of the four text controls
EditShipping(field, v) ==
    /\ ShippingShown
    /\ field \in {"courierName", "trackingNumber", "estimatedDeliveryDate", "notes"}
    /\ shippingForm' = [shippingForm EXCEPT ![field] = v]
    /\ ev' = Event("editShipping", Click(field), NoResponse)
    /\ UNCHANGED <<mounted, orders, selectedOrder, ui, messageInput,
                   performanceMetrics, fetching, inflight>>
    /\ Live

\* file input onChange: proofImages: [...prev.proofImages, ...files]
AddProofImages(files) ==
    /\ ShippingShown
    /\ Len(shippingForm.proofImages) + Len(files) <= MaxProofImages
    /\ shippingForm' = [shippingForm EXCEPT !.proofImages = @ \o files]
    /\ ev' = Event("addProofImages", Click(""), NoResponse)
    /\ UNCHANGED <<mounted, orders, selectedOrder, ui, messageInput,
                   performanceMetrics, fetching, inflight>>
    /\ Live

\* thumbnail x: proofImages.filter((_, i) => i !== idx)
RemoveProofImage(idx) ==
    /\ ShippingShown
    /\ idx \in 1..Len(shippingForm.proofImages)
    /\ shippingForm' = [shippingForm EXCEPT !.proofImages = RemoveAt(@, idx)]
    /\ ev' = Event("removeProofImage", Click(""), NoResponse)
    /\ UNCHANGED <<mounted, orders, selectedOrder, ui, messageInput,
                   performanceMetrics, fetching, inflight>>
    /\ Live

\* a validation that forgets the delivery date
ShippingIncomplete_NoDate(f) ==
    f.courierName = "" \/ f.trackingNumber = ""

\* !courierName || !trackingNumber || !estimatedDeliveryDate
ShippingIncomplete(f) ==
    f.courierName = "" \/ f.trackingNumber = "" \/ f.estimatedDeliveryDate = ""

\* Submit Shipping Info: submitShippingInfo(selectedOrder.id) up to its
\* await, or up to the return of the validation branch.
submitShippingInfo ==
    /\ ShippingShown
    /\ IF ShippingIncomplete(shippingForm)
       THEN /\ ui' = [ui EXCEPT !.errorNotification = "Please fill in all required fields"]
            /\ UNCHANGED inflight
       ELSE /\ Room(1)
            /\ inflight' = Send(inflight, Request("shipping", selectedOrder.id, "action"))
            /\ UNCHANGED ui
    /\ ev' = Event("submitShippingInfo", Click(selectedOrder.id), NoResponse)
    /\ UNCHANGED <<mounted, orders, selectedOrder, shippingForm, messageInput,
                   performanceMetrics, fetching>>
    /\ Live

\* submitShippingInfo whose catch block gives the form up: the modal is
\* closed and the draft reset.
submitShippingInfoSettle_GivesUp(r, res) ==
    /\ BagIn(r, inflight)
    /\ r.kind = "shipping"
    /\ IF res.kind = "ok"
       THEN /\ Room(1)
            /\ ui' = fetchOrdersBegin(
                       [ui EXCEPT !.successNotification =
                                      "Shipping information added successfully!",
                                  !.shippingModalOpen = FALSE])
            /\ shippingForm' = EmptyShippingForm
            /\ fetching' = Append(fetching, ListFetch("action"))
            /\ inflight' = Send(Take(inflight, r), Request("order", r.id, "submitShippingInfo"))
       ELSE /\ ui' = [ui EXCEPT !.errorNotification =
                         OrElse(CaughtMessage(res, "Failed to submit shipping info"),
                                "Failed to submit shipping info"),
                                !.shippingModalOpen = FALSE]
            /\ shippingForm' = EmptyShippingForm
            /\ inflight' = Take(inflight, r)
            /\ UNCHANGED fetching
    /\ ev' = Event("submitShippingInfo.settle", r, res)
    /\ UNCHANGED <<mounted, orders, selectedOrder, messageInput, performanceMetrics>>
    /\ Live

\* a success path that closes the modal and notifies but keeps the draft
submitShippingInfoSettle_KeepsDraft(r, res) ==
    /\ BagIn(r, inflight)
    /\ r.kind = "shipping"
    /\ IF res.kind = "ok"
       THEN /\ Room(1)
            /\ ui' = fetchOrdersBegin(
                       [ui EXCEPT !.successNotification =
                                      "Shipping information added successfully!",
                                  !.shippingModalOpen = FALSE])
            /\ fetching' = Append(fetching, ListFetch("action"))
            /\ inflight' = Send(Take(inflight, r), Request("order", r.id, "submitShippingInfo"))
            /\ UNCHANGED shippingForm
       ELSE /\ ui' = [ui EXCEPT !.errorNotification =
                         OrElse(CaughtMessage(res, "Failed to submit shipping info"),
                                "Failed to submit shipping info")]
            /\ inflight' = Take(inflight, r)
            /\ UNCHANGED <<shippingForm, fetching>>
    /\ ev' = Event("submitShippingInfo.settle", r, res)
    /\ UNCHANGED <<mounted, orders, selectedOrder, messageInput, performanceMetrics>>
    /\ Live

\* submitShippingInfo after the await; on success fetchOrders() and
\* fetchOrderDetails(orderId) run up to their awaits.
submitShippingInfoSettle(r, res) ==
    /\ BagIn(r, inflight)
    /\ r.kind = "shipping"
    /\ IF res.kind = "ok"
       THEN /\ Room(1)
            /\ ui' = fetchOrdersBegin(
                       [ui EXCEPT !.successNotification =
                                      "Shipping information added successfully!",
                                  !.shippingModalOpen = FALSE])
            /\ shippingForm' = EmptyShippingForm
            /\ fetching' = Append(fetching, ListFetch("action"))
            /\ inflight' = Send(Take(inflight, r), Request("order", r.id, "submitShippingInfo"))
       ELSE /\ ui' = [ui EXCEPT !.errorNotification =
                         OrElse(CaughtMessage(res, "Failed to submit shipping info"),
                                "Failed to submit shipping info")]
            /\ inflight' = Take(inflight, r)
            /\ UNCHANGED <<shippingForm, fetching>>
    /\ ev' = Event("submitShippingInfo.settle", r, res)
    /\ UNCHANGED <<mounted, orders, selectedOrder, messageInput, performanceMetrics>>
    /\ Live

\* ----------------------------------------------------------- message form
\* {ui.messageModalOpen && <MessageModal />}
MessageShown == ui.messageModalOpen /\ selectedOrder # NoOrder

\* a Cancel that discards what was typed
CloseMessage_ClearsDraft ==
    /\ MessageShown
    /\ ui' = [ui EXCEPT !.messageModalOpen = FALSE]
    /\ messageInput' = <<>>
    /\ ev' = Event("closeMessage", Click(selectedOrder.id), NoResponse)
    /\ UNCHANGED <<mounted, orders, selectedOrder, shippingForm,
                   performanceMetrics, fetching, inflight>>
    /\ Live

\* X / Cancel of the message modal
CloseMessage ==
    /\ MessageShown
    /\ ui' = [ui EXCEPT !.messageModalOpen = FALSE]
    /\ ev' = Event("closeMessage", Click(selectedOrder.id), NoResponse)
    /\ UNCHANGED <<mounted, orders, selectedOrder, shippingForm, messageInput,
                   performanceMetrics, fetching, inflight>>
    /\ Live

\* textarea onChange: setMessageInput(e.target.value)
EditMessage(v) ==
    /\ MessageShown
    /\ messageInput' = v
    /\ ev' = Event("editMessage", Click(""), NoResponse)
    /\ UNCHANGED <<mounted, orders, selectedOrder, ui, shippingForm,
                   performanceMetrics, fetching, inflight>>
    /\ Live

\* String.prototype.trim on a sequence of characters
WhiteSpace == {" ", "\t", "\n"}

RECURSIVE TrimStart(_)
TrimStart(s) ==
    IF s # <<>> /\ Head(s) \in WhiteSpace THEN TrimStart(Tail(s)) ELSE s

RECURSIVE TrimEnd(_)
TrimEnd(s) ==
    IF s # <<>> /\ s[Len(s)] \in WhiteSpace THEN TrimEnd(SubSeq(s, 1, Len(s) - 1)) ELSE s

\* a validation on messageInput instead of messageInput.trim()
Trim_None(s) == s

Trim(s) == TrimEnd(TrimStart(s))

\* Send Message: sendMessage(selectedOrder.id) up to its await, or up to the
\* return of the validation branch.
sendMessage ==
    /\ MessageShown
    /\ IF Trim(messageInput) = <<>>
       THEN /\ ui' = [ui EXCEPT !.errorNotification = "Message cannot be empty"]
            /\ UNCHANGED inflight
       ELSE /\ Room(1)
            /\ inflight' = Send(inflight, Request("messages", selectedOrder.id, "action"))
            /\ UNCHANGED ui
    /\ ev' = Event("sendMessage", Click(selectedOrder.id), NoResponse)
    /\ UNCHANGED <<mounted, orders, selectedOrder, shippingForm, messageInput,
                   performanceMetrics, fetching>>
    /\ Live

sendMessageSettle(r, res) ==
    /\ BagIn(r, inflight)
    /\ r.kind = "messages"
    /\ IF res.kind = "ok"
       THEN /\ messageInput' = <<>>
            /\ ui' = [ui EXCEPT !.successNotification = "Message sent!"]
            /\ inflight' = Send(Take(inflight, r), Request("order", r.id, "sendMessage"))
       ELSE /\ ui' = [ui EXCEPT !.errorNotification =
                         OrElse(CaughtMessage(res, "Failed to send message"),
                                "Failed to send message")]
            /\ inflight' = Take(inflight, r)
            /\ UNCHANGED messageInput
    /\ ev' = Event("sendMessage.settle", r, res)
    /\ UNCHANGED <<mounted, orders, selectedOrder, shippingForm, performanceMetrics,
                   fetching>>
    /\ Live

\* ---------------------------------------------------------- notifications
\* One second passes. A timer that is due fires before more time passes.
Tick ==
    /\ ~torn
    /\ ui.successNotification # Null \/ ui.errorNotification # Null
    /\ ui.successNotification # Null => timers.success > 0
    /\ ui.errorNotification # Null => timers.error > 0
    /\ timers' = [success |-> IF timers.success > 0 THEN timers.success - 1 ELSE 0,
                  error |-> IF timers.error > 0 THEN timers.error - 1 ELSE 0]
    /\ ev' = Event("tick", Click(""), NoResponse)
    /\ UNCHANGED <<mounted, orders, selectedOrder, ui, shippingForm, messageInput,
                   performanceMetrics, fetching, inflight, torn>>
    /\ UNCHANGED <<controls, filteredOrders, now, createdLabel, shell>>

\* x of the error banner: errorNotification: null
DismissError ==
    /\ ui.errorNotification # Null
    /\ ui' = [ui EXCEPT !.errorNotification = Null]
    /\ ev' = Event("dismissError", Click(""), NoResponse)
    /\ UNCHANGED <<mounted, orders, selectedOrder, shippingForm, messageInput,
                   performanceMetrics, fetching, inflight>>
    /\ Live

\* the setTimeout(..., 5000) of the error effect fires
ErrorTimeout ==
    /\ ui.errorNotification # Null
    /\ timers.error = 0
    /\ ui' = [ui EXCEPT !.errorNotification = Null]
    /\ ev' = Event("errorTimeout", Click(""), NoResponse)
    /\ UNCHANGED <<mounted, orders, selectedOrder, shippingForm, messageInput,
                   performanceMetrics, fetching, inflight>>
    /\ Live

\* x of the success banner: successNotification: null
DismissSuccess ==
    /\ ui.successNotification # Null
    /\ ui' = [ui EXCEPT !.successNotification = Null]
    /\ ev' = Event("dismissSuccess", Click(""), NoResponse)
    /\ UNCHANGED <<mounted, orders, selectedOrder, shippingForm, messageInput,
                   performanceMetrics, fetching, inflight>>
    /\ Live

\* the setTimeout(..., 3000) of the success effect fires
SuccessTimeout ==
    /\ ui.successNotification # Null
    /\ timers.success = 0
    /\ ui' = [ui EXCEPT !.successNotification = Null]
    /\ ev' = Event("successTimeout", Click(""), NoResponse)
    /\ UNCHANGED <<mounted, orders, selectedOrder, shippingForm, messageInput,
                   performanceMetrics, fetching, inflight>>
    /\ Live


\* =========================================================================
\* Specifications.  The backend's answers are inputs: each specification
\* draws them from the sets below.
\* =========================================================================

\* { data: Order[] } bodies of GET /orders; NullOrders is a body without data
SomeLists ==
    {<<>>,
     <<Order("ORD-1", "pending")>>,
     <<Order("ORD-1", "accepted"), Order("ORD-2", "pending")>>}

ListResponses ==
    {Ok(NullOrders)} \cup {Ok(OrderList(l)) : l \in SomeLists} \cup Failures

\* { data: Order } bodies of GET /orders/{id}, the order in one of `statuses`
DetailResponses(id, statuses) ==
    {Ok(Order(id, st)) : st \in statuses} \cup Failures

\* answers to a POST, and to GET /performance
PlainResponses == {Ok(NoOrder)} \cup Failures

\* ---- Spec: the panel from construction: mount, polling, list and detail
\* fetches, accept and reject.
Next ==
    \/ Mount
    \/ PollTick
    \/ \E i \in 1..Len(fetching), res \in ListResponses : fetchOrdersSettle(i, res)
    \/ \E r \in BagToSet(inflight) :
          \E res \in DetailResponses(r.id, {"pending", "accepted"}) :
              fetchOrderDetailsSettle(r, res)
    \/ \E r \in BagToSet(inflight), res \in {Ok(NoOrder), Http} :
          fetchPerformanceMetricsSettle(r, res)
    \/ \E r \in BagToSet(inflight), res \in PlainResponses : acceptOrderSettle(r, res)
    \/ \E r \in BagToSet(inflight), res \in PlainResponses : rejectOrderSettle(r, res)
    \/ \E o \in Orders : ViewDetails(o)
    \/ CloseDetail
    \/ acceptOrder
    \/ rejectOrder

Spec == Init /\ [][Next]_vars


\* =========================================================================
\* Claims checked under Spec
\* =========================================================================

\* The error text fetchOrders shows for a failed response.
ListFailureText(res) ==
    IF res.kind = "http" THEN "Failed to fetch orders"
    ELSE IF res.msg # "" THEN res.msg
    ELSE "Failed to load orders. Please try again."

\* C5: list fetches are neither cancelled nor de-duplicated and are applied
\* in settlement order: a polling tick adds its fetch to those in flight
\* whatever is in flight already, a list fetch leaves flight only by
\* settling, and whenever one settles the held list becomes that response's
\* outcome (its payload, or the empty list on failure), also when a fetch
\* dispatched after it was applied before it.
C5_LastSettledWins ==
    [][/\ ev'.op = "poll" => fetching' = Append(fetching, ListFetch("poll"))
       /\ Len(fetching') < Len(fetching) =>
            /\ ev'.op = "fetchOrders.settle"
            /\ Len(fetching') = Len(fetching) - 1
       /\ ev'.op = "fetchOrders.settle" =>
            /\ orders' = ListOutcome(ev'.res)
            /\ ~ui'.loading]_vars

\* A polling fetch was dispatched, then an action's fetch; the action's was
\* applied first and the polling fetch's payload, applied last, is held.
C5_Witness ==
    /\ ev.op = "fetchOrders.settle"
    /\ ev.req.by = "poll"
    /\ ev.req.stale = "action"
    /\ ev.res.kind = "ok"
    /\ fetching = <<>>
    /\ orders = OrderList(<<Order("ORD-1", "pending")>>)

\* C6: after a failed list fetch the held list is the empty sequence and the
\* error notification is the failure's message, or the generic fallback
\* when the failure carries none.
C6_ListFailure ==
    (ev.op = "fetchOrders.settle" /\ ev.res.kind # "ok") =>
        /\ orders = OrderList(<<>>)
        /\ ui.errorNotification = ListFailureText(ev.res)

\* A list fetch failed without a message while the detail view showed an
\* order of a list held before: the list is empty, the fallback is shown.
C6_Witness ==
    /\ ev.op = "fetchOrders.settle"
    /\ ev.res = Thrown("")
    /\ DetailShown
    /\ orders = OrderList(<<>>)
    /\ ui.errorNotification = "Failed to load orders. Please try again."

\* C7 as claimed: a failed detail fetch shows the failure's message (or a
\* fallback) and empties the held list.
C7_Original ==
    (ev.op = "fetchOrderDetails.settle" /\ ev.res.kind # "ok") =>
        /\ orders = OrderList(<<>>)
        /\ ui.errorNotification =
             OrElse(CaughtMessage(ev.res, "Failed to fetch order details"),
                    "Failed to load order details")

\* C7 amended: a failed detail fetch sets the error notification to the
\* fixed text "Failed to load order details", whatever message the failure
\* carries, and changes nothing else: the held list and the selected order
\* stay as they were.
C7_DetailFailure ==
    [][(ev'.op = "fetchOrderDetails.settle" /\ ev'.res.kind # "ok") =>
          /\ ui' = [ui EXCEPT !.errorNotification = "Failed to load order details"]
          /\ orders' = orders
          /\ selectedOrder' = selectedOrder]_vars

\* A detail fetch failed with a message of its own while a non-empty list
\* was held: the fixed text is shown and the list is still there.
C7_Witness ==
    /\ ev.op = "fetchOrderDetails.settle"
    /\ ev.res = Thrown("NetworkError")
    /\ orders.list # <<>>
    /\ ui.errorNotification = "Failed to load order details"

\* The error notification goes from shown to null.
ErrorCleared == ui.errorNotification # Null /\ ui'.errorNotification = Null

\* C8 as claimed: a shown error notification is cleared only by its timeout
\* or the manual dismiss, and a list fetch, dispatched or completed, leaves
\* it unchanged.
C8_Original ==
    [][/\ ErrorCleared => ev'.op \in {"errorTimeout", "dismissError"}
       /\ ev'.op \in {"mount", "poll", "fetchOrders.settle"} /\ ev'.res.kind \in {"none", "ok"}
            => ui'.errorNotification = ui.errorNotification]_vars

\* C8 amended: a shown error notification is cleared by its timeout, by the
\* manual dismiss, or by the dispatch of a list fetch (fetchOrders sets it to
\* null before sending: at mount, at a polling tick, after a successful
\* accept, reject or shipping submission) and by nothing else; a list fetch
\* that completes with success leaves it unchanged.
C8_ErrorCleared ==
    [][/\ ErrorCleared =>
            \/ ev'.op \in {"errorTimeout", "dismissError", "mount", "poll"}
            \/ /\ ev'.op \in {"acceptOrder.settle", "rejectOrder.settle",
                              "submitShippingInfo.settle"}
               /\ ev'.res.kind = "ok"
       /\ ev'.op \in {"mount", "poll"} => ui'.errorNotification = Null
       /\ (ev'.op = "fetchOrders.settle" /\ ev'.res.kind = "ok")
            => ui'.errorNotification = ui.errorNotification]_vars

\* A list fetch completed with success while an error was shown: it still is.
C8_Witness ==
    /\ ev.op = "fetchOrders.settle"
    /\ ev.res.kind = "ok"
    /\ ui.errorNotification = "Failed to load order details"

\* C10: a successful reject closes the detail view, sets the success
\* notification and dispatches a list fetch and no detail fetch; a failed
\* reject leaves the detail view as it was and dispatches nothing.
C10_Reject ==
    [][ev'.op = "rejectOrder.settle" =>
          IF ev'.res.kind = "ok"
          THEN /\ ~ui'.orderDetailOpen
               /\ ui'.successNotification = "Order rejected"
               /\ fetching' = Append(fetching, ListFetch("action"))
               /\ inflight' = Take(inflight, ev'.req)
          ELSE /\ ui'.orderDetailOpen = ui.orderDetailOpen
               /\ ui'.successNotification = ui.successNotification
               /\ fetching' = fetching
               /\ inflight' = Take(inflight, ev'.req)]_vars

\* A reject succeeded: the detail view is closed on the rejected order and
\* the only request in flight is the list fetch.
C10_Witness ==
    /\ ev.op = "rejectOrder.settle"
    /\ ev.res.kind = "ok"
    /\ selectedOrder.id = ev.req.id
    /\ ~ui.orderDetailOpen
    /\ ui.successNotification = "Order rejected"
    /\ fetching = <<ListFetch("action")>>
    /\ inflight = EmptyBag

\* A reject failed with the detail view open: it is still open.
C10_WitnessFailed ==
    /\ ev.op = "rejectOrder.settle"
    /\ ev.res.kind # "ok"
    /\ DetailShown
    /\ fetching = <<>>


\* =========================================================================
\* The panel after its first load
\* =========================================================================

\* the list the backend delivered to the mount fetch
LoadedList == <<Order("ORD-1", "pending"), Order("ORD-2", "accepted")>>

\* The state after Mount and the success of both its fetches.
InitLoaded ==
    /\ mounted = TRUE
    /\ orders = OrderList(LoadedList)
    /\ selectedOrder = NoOrder
    /\ ui = [InitUi EXCEPT !.loading = FALSE]
    /\ shippingForm = EmptyShippingForm
    /\ messageInput = <<>>
    /\ performanceMetrics = "metrics"
    /\ fetching = <<>>
    /\ inflight = EmptyBag
    /\ torn = FALSE
    /\ timers = NoTimers
    /\ ev = Event("fetchOrders.settle", ListFetch("mount"), Ok(OrderList(LoadedList)))
    /\ Defaults

\* ---- SpecDetail: the detail view over every status the backend can report,
\* and over a body without data
NextDetail ==
    \/ \E o \in Orders : ViewDetails(o)
    \/ \E r \in BagToSet(inflight) :
          \E res \in DetailResponses(r.id, Statuses) \cup {Ok(NoOrder)} :
              fetchOrderDetailsSettle(r, res)
    \/ \E i \in 1..Len(fetching), res \in {Ok(OrderList(LoadedList)), Http} :
          fetchOrdersSettle(i, res)
    \/ \E r \in BagToSet(inflight), res \in {Ok(NoOrder), Http} : acceptOrderSettle(r, res)
    \/ \E r \in BagToSet(inflight), res \in {Ok(NoOrder), Http} : rejectOrderSettle(r, res)
    \/ CloseDetail
    \/ acceptOrder
    \/ rejectOrder
    \/ OpenShipping
    \/ OpenProof

SpecDetail == InitLoaded /\ [][NextDetail]_vars

\* the lifecycle actions the spec's table lists for a status
LifecycleActions(status) ==
    CASE status = "pending" -> {"accept", "reject"}
      [] status = "accepted" -> {"shipping"}
      [] status = "shipped" -> {"proof"}
      [] OTHER -> {}

\* C2: while the detail view is shown, the lifecycle actions offered are
\* those of the selected order's status and of nothing else (pending: Accept
\* and Reject; accepted: Add Shipping Info; shipped: Update Proof; completed,
\* dispute, cancelled: none), an action is only ever taken from the status
\* that offers it, and after a detail fetch returned an order the actions
\* of its status are offered: for accepted, Add Shipping Info is and Accept
\* and Reject are not.
C2_OfferedByStatus ==
    [][/\ DetailShown =>
            \A a \in {"accept", "reject", "shipping", "proof"} :
                Offered(a) <=> a \in LifecycleActions(selectedOrder.status)
       /\ ev'.op \in {"acceptOrder", "rejectOrder"} =>
            DetailShown /\ selectedOrder.status = "pending"
       /\ ev'.op = "openShipping" => DetailShown /\ selectedOrder.status = "accepted"
       /\ ev'.op = "openProof" => DetailShown /\ selectedOrder.status = "shipped"
       /\ (ev'.op = "fetchOrderDetails.settle" /\ ev'.res.kind = "ok"
             /\ ev'.res.data # NoOrder) =>
            /\ DetailShown'
            /\ \A a \in {"accept", "reject", "shipping", "proof"} :
                 Offered(a)' <=> a \in LifecycleActions(ev'.res.data.status)]_vars

\* The detail re-fetch of a successful accept returned status accepted: Add
\* Shipping Info is offered, Accept and Reject are not.
C2_Witness ==
    /\ ev.op = "fetchOrderDetails.settle"
    /\ ev.req.by = "acceptOrder"
    /\ ev.res = Ok(Order("ORD-1", "accepted"))
    /\ Offered("shipping")
    /\ ~Offered("accept")
    /\ ~Offered("reject")
    /\ ~Offered("proof")


\* ---- SpecShipping: the shipping form of an accepted order
ShippingTexts == {"", " ", "DHL"}

NextShipping ==
    \/ ViewDetails(Order("ORD-2", "accepted"))
    \/ \E r \in BagToSet(inflight), res \in {Ok(Order("ORD-2", "accepted")), Http} :
          fetchOrderDetailsSettle(r, res)
    \/ \E i \in 1..Len(fetching), res \in {Ok(OrderList(LoadedList)), Http} :
          fetchOrdersSettle(i, res)
    \/ OpenShipping
    \/ CloseShipping
    \/ \E f \in {"courierName", "trackingNumber", "estimatedDeliveryDate"},
          v \in ShippingTexts : EditShipping(f, v)
    \/ \E v \in {"", "fragile"} : EditShipping("notes", v)
    \/ AddProofImages(<<"photo.png">>)
    \/ \E idx \in 1..MaxProofImages : RemoveProofImage(idx)
    \/ submitShippingInfo
    \/ \E r \in BagToSet(inflight), res \in PlainResponses : submitShippingInfoSettle(r, res)

SpecShipping == InitLoaded /\ [][NextShipping]_vars

\* C3: submitShippingInfo dispatches POST /orders/{id}/shipping if and only
\* if courierName, trackingNumber and estimatedDeliveryDate are all
\* non-empty, whatever notes and proof images hold; when one of the three is
\* empty it dispatches nothing and sets the error notification; either way
\* the draft, the modal flags, the order list and the selected order are
\* left unchanged.
C3_ShippingValidation ==
    [][ev'.op = "submitShippingInfo" =>
          /\ IF /\ shippingForm.courierName # ""
                /\ shippingForm.trackingNumber # ""
                /\ shippingForm.estimatedDeliveryDate # ""
             THEN /\ inflight' = Send(inflight, Request("shipping", selectedOrder.id, "action"))
                  /\ ui' = ui
             ELSE /\ inflight' = inflight
                  /\ ui' = [ui EXCEPT !.errorNotification = "Please fill in all required fields"]
          /\ fetching' = fetching
          /\ shippingForm' = shippingForm
          /\ orders' = orders
          /\ selectedOrder' = selectedOrder]_vars

\* A draft with notes and a proof image but no delivery date was submitted:
\* nothing is in flight and the error is shown.
C3_Witness ==
    /\ ev.op = "submitShippingInfo"
    /\ shippingForm = [courierName |-> "DHL", trackingNumber |-> "DHL",
                       estimatedDeliveryDate |-> "", notes |-> "fragile",
                       proofImages |-> <<"photo.png">>]
    /\ inflight = EmptyBag
    /\ fetching = <<>>
    /\ ui.shippingModalOpen
    /\ ui.errorNotification = "Please fill in all required fields"

\* A draft with the three required fields and neither notes nor images was
\* submitted: the POST is in flight.
C3_WitnessDispatched ==
    /\ ev.op = "submitShippingInfo"
    /\ ~ShippingIncomplete(shippingForm)
    /\ shippingForm.notes = ""
    /\ shippingForm.proofImages = <<>>
    /\ BagIn(Request("shipping", "ORD-2", "action"), inflight)

\* ---- SpecMessage: the message form
MessageTexts == {<<>>, <<" ">>, <<"h", "i">>, <<" ", "h", "i", "\n">>, <<"\t", " ">>}

NextMessage ==
    \/ \E o \in Orders : CardMessage(o)
    \/ \E o \in Orders : ViewDetails(o)
    \/ \E r \in BagToSet(inflight) :
          \E res \in DetailResponses(r.id, {"pending"}) : fetchOrderDetailsSettle(r, res)
    \/ OpenMessage
    \/ CloseMessage
    \/ CloseDetail
    \/ \E v \in MessageTexts : EditMessage(v)
    \/ sendMessage
    \/ \E r \in BagToSet(inflight), res \in PlainResponses : sendMessageSettle(r, res)

SpecMessage == InitLoaded /\ [][NextMessage]_vars

\* the draft holds nothing but white space
Blank(s) == \A k \in 1..Len(s) : s[k] \in WhiteSpace

\* C4: sendMessage dispatches POST /orders/{id}/messages if and only if the
\* draft holds a character that is not white space; when it holds none, it
\* dispatches nothing and sets the error notification; either way the
\* draft, the modal flags and the selected order are left unchanged.
C4_MessageValidation ==
    [][ev'.op = "sendMessage" =>
          /\ IF ~Blank(messageInput)
             THEN /\ inflight' = Send(inflight, Request("messages", selectedOrder.id, "action"))
                  /\ ui' = ui
             ELSE /\ inflight' = inflight
                  /\ ui' = [ui EXCEPT !.errorNotification = "Message cannot be empty"]
          /\ fetching' = fetching
          /\ messageInput' = messageInput
          /\ orders' = orders
          /\ selectedOrder' = selectedOrder]_vars

\* A draft of white space only was sent: nothing is in flight, the error
\* is shown, the draft and the modal are as they were.
C4_Witness ==
    /\ ev.op = "sendMessage"
    /\ messageInput = <<"\t", " ">>
    /\ inflight = EmptyBag
    /\ ui.messageModalOpen
    /\ ui.errorNotification = "Message cannot be empty"

\* A draft with text between white space was sent: the POST is in flight.
C4_WitnessDispatched ==
    /\ ev.op = "sendMessage"
    /\ messageInput = <<" ", "h", "i", "\n">>
    /\ BagIn(Request("messages", selectedOrder.id, "action"), inflight)


\* ---- SpecMutations: the four mutating requests side by side, from the
\* state in which the seller has opened the accepted order, filled the
\* shipping form, opened the message form and typed a message.
DraftedShippingForm ==
    [EmptyShippingForm EXCEPT !.courierName = "DHL", !.trackingNumber = "DHL",
                              !.estimatedDeliveryDate = "DHL"]

InitDrafted ==
    /\ mounted = TRUE
    /\ orders = OrderList(LoadedList)
    /\ selectedOrder = Order("ORD-2", "accepted")
    /\ ui = [InitUi EXCEPT !.loading = FALSE, !.orderDetailOpen = TRUE,
                           !.shippingModalOpen = TRUE, !.messageModalOpen = TRUE]
    /\ shippingForm = DraftedShippingForm
    /\ messageInput = <<"h", "i">>
    /\ performanceMetrics = "metrics"
    /\ fetching = <<>>
    /\ inflight = EmptyBag
    /\ torn = FALSE
    /\ timers = NoTimers
    /\ ev = Event("editMessage", Click(""), NoResponse)
    /\ Defaults

NextMutations ==
    \/ ViewDetails(Order("ORD-1", "pending"))
    \/ \E o \in Orders : CardMessage(o)
    \/ \E r \in BagToSet(inflight) :
          \E res \in {Ok(Order(r.id, st)) : st \in {"pending", "accepted"}} :
              fetchOrderDetailsSettle(r, res)
    \/ \E i \in 1..Len(fetching), res \in {Ok(OrderList(LoadedList)), Http} :
          fetchOrdersSettle(i, res)
    \/ acceptOrder
    \/ \E r \in BagToSet(inflight), res \in {Ok(NoOrder), Http} : acceptOrderSettle(r, res)
    \/ rejectOrder
    \/ \E r \in BagToSet(inflight), res \in {Ok(NoOrder), Http} : rejectOrderSettle(r, res)
    \/ OpenShipping
    \/ submitShippingInfo
    \/ \E r \in BagToSet(inflight), res \in {Ok(NoOrder), Http} :
          submitShippingInfoSettle(r, res)
    \/ EditMessage(<<"h", "i">>)
    \/ sendMessage
    \/ \E r \in BagToSet(inflight), res \in {Ok(NoOrder), Http} : sendMessageSettle(r, res)

SpecMutations == InitDrafted /\ [][NextMutations]_vars

\* the steps of acceptOrder, rejectOrder, submitShippingInfo and sendMessage
MutatingSteps ==
    {"acceptOrder", "acceptOrder.settle", "rejectOrder", "rejectOrder.settle",
     "submitShippingInfo", "submitShippingInfo.settle", "sendMessage", "sendMessage.settle"}

\* C1: the client never predicts an order's state.  The order list changes
\* only when a list fetch settles, to what that response delivered; the
\* selected order changes only when a detail fetch delivers an order, to
\* that order, or when a card's message button copies an order of the held
\* list; acceptOrder, rejectOrder, submitShippingInfo and sendMessage write
\* neither, on success or on failure.
C1_NoOptimisticUpdate ==
    [][/\ orders' # orders =>
            /\ ev'.op = "fetchOrders.settle"
            /\ orders' = ListOutcome(ev'.res)
       /\ selectedOrder' # selectedOrder =>
            \/ /\ ev'.op = "fetchOrderDetails.settle"
               /\ ev'.res.kind = "ok"
               /\ selectedOrder' = ev'.res.data
            \/ /\ ev'.op = "cardMessage"
               /\ \E k \in 1..Len(orders.list) : selectedOrder' = orders.list[k]
       /\ ev'.op \in MutatingSteps =>
            orders' = orders /\ selectedOrder' = selectedOrder]_vars

\* An accept succeeded: the selected order still has the status the last
\* detail response gave it, and the held list is the one last delivered.
C1_Witness ==
    /\ ev.op = "acceptOrder.settle"
    /\ ev.res.kind = "ok"
    /\ selectedOrder = Order(ev.req.id, "pending")
    /\ orders = OrderList(LoadedList)

\* the detail fetch a successful mutation `by` dispatches for its order
Refetch(by) == Request("order", ev'.req.id, by)

\* C9: a successful accept and a successful shipping submission each
\* dispatch one list fetch and one detail fetch for their order, a
\* successful reject one list fetch, a successful message send one detail
\* fetch for its order; a failed one dispatches nothing, and the click that
\* sends the mutating request dispatches no fetch.
C9_RefetchAfterSuccess ==
    [][/\ ev'.op \in {"acceptOrder.settle", "submitShippingInfo.settle"} =>
            IF ev'.res.kind = "ok"
            THEN /\ fetching' = Append(fetching, ListFetch("action"))
                 /\ inflight' = Send(Take(inflight, ev'.req),
                                     Refetch(IF ev'.op = "acceptOrder.settle"
                                             THEN "acceptOrder" ELSE "submitShippingInfo"))
            ELSE fetching' = fetching /\ inflight' = Take(inflight, ev'.req)
       /\ ev'.op = "rejectOrder.settle" =>
            /\ fetching' = IF ev'.res.kind = "ok"
                           THEN Append(fetching, ListFetch("action")) ELSE fetching
            /\ inflight' = Take(inflight, ev'.req)
       /\ ev'.op = "sendMessage.settle" =>
            /\ fetching' = fetching
            /\ inflight' = IF ev'.res.kind = "ok"
                           THEN Send(Take(inflight, ev'.req), Refetch("sendMessage"))
                           ELSE Take(inflight, ev'.req)
       /\ ev'.op \in {"acceptOrder", "rejectOrder", "submitShippingInfo", "sendMessage"} =>
            /\ fetching' = fetching
            /\ \A q \in BagToSet(inflight') :
                 q.kind = "order" => CopiesIn(q, inflight') = CopiesIn(q, inflight)]_vars

\* A shipping submission succeeded with nothing else in flight: exactly its
\* list fetch and its detail fetch are.
C9_Witness ==
    /\ ev.op = "submitShippingInfo.settle"
    /\ ev.res.kind = "ok"
    /\ fetching = <<ListFetch("action")>>
    /\ inflight = SetToBag({Request("order", ev.req.id, "submitShippingInfo")})

\* A message was sent with success: exactly its detail fetch is in flight.
C9_WitnessMessage ==
    /\ ev.op = "sendMessage.settle"
    /\ ev.res.kind = "ok"
    /\ fetching = <<>>
    /\ inflight = SetToBag({Request("order", ev.req.id, "sendMessage")})

\* ---- SpecFailures: the four mutating requests when the backend refuses them
NextFailures ==
    \/ ViewDetails(Order("ORD-1", "pending"))
    \/ \E r \in BagToSet(inflight) :
          \E res \in {Ok(Order(r.id, st)) : st \in {"pending", "accepted"}} :
              fetchOrderDetailsSettle(r, res)
    \/ \E i \in 1..Len(fetching) : fetchOrdersSettle(i, Ok(OrderList(LoadedList)))
    \/ acceptOrder
    \/ \E r \in BagToSet(inflight), res \in PlainResponses : acceptOrderSettle(r, res)
    \/ rejectOrder
    \/ \E r \in BagToSet(inflight), res \in Failures : rejectOrderSettle(r, res)
    \/ submitShippingInfo
    \/ \E r \in BagToSet(inflight), res \in Failures : submitShippingInfoSettle(r, res)
    \/ sendMessage
    \/ \E r \in BagToSet(inflight), res \in Failures : sendMessageSettle(r, res)
    \/ Tick
    \/ ErrorTimeout

SpecFailures == InitDrafted /\ [][NextFailures]_vars

\* the text of the handler's own `throw new Error(...)`, which is also its
\* fallback
ActionFailureText(op) ==
    CASE op = "acceptOrder.settle" -> "Failed to accept order"
      [] op = "rejectOrder.settle" -> "Failed to reject order"
      [] op = "submitShippingInfo.settle" -> "Failed to submit shipping info"
      [] op = "sendMessage.settle" -> "Failed to send message"

\* C11: a failed accept, reject, shipping submission or message send ends
\* the attempt: the request leaves flight and nothing is dispatched (no
\* retry, no re-fetch), the error notification becomes the failure's
\* message, or the action's fallback when it carries none, and the order
\* list, the selected order, the modal flags, the other ui fields, the
\* shipping draft and the message draft are unchanged.
C11_FailureIsTerminal ==
    [][(/\ ev'.op \in {"acceptOrder.settle", "rejectOrder.settle",
                       "submitShippingInfo.settle", "sendMessage.settle"}
        /\ ev'.res.kind # "ok") =>
          /\ fetching' = fetching
          /\ inflight' = Take(inflight, ev'.req)
          /\ ui' = [ui EXCEPT !.errorNotification =
                       IF ev'.res.kind = "throw" /\ ev'.res.msg # ""
                       THEN ev'.res.msg ELSE ActionFailureText(ev'.op)]
          /\ orders' = orders
          /\ selectedOrder' = selectedOrder
          /\ shippingForm' = shippingForm
          /\ messageInput' = messageInput]_vars

\* A shipping submission failed without a message: the form is still open
\* with its draft, the fallback is shown, nothing is in flight.
C11_Witness ==
    /\ ev.op = "submitShippingInfo.settle"
    /\ ev.res = Thrown("")
    /\ ui.shippingModalOpen
    /\ shippingForm = DraftedShippingForm
    /\ messageInput = <<"h", "i">>
    /\ ui.errorNotification = "Failed to submit shipping info"
    /\ fetching = <<>>
    /\ inflight = EmptyBag

\* =========================================================================
\* Teardown
\* =========================================================================

\* React unmounts OrdersTab: the cleanups of the three effects run
\* (clearInterval, clearTimeout, clearTimeout).  The state cells are
\* dropped: updates to them are ignored from here on.
Unmount ==
    /\ mounted
    /\ ~torn
    /\ torn' = TRUE
    /\ timers' = NoTimers
    /\ ev' = Event("unmount", Click(""), NoResponse)
    /\ UNCHANGED <<mounted, orders, selectedOrder, ui, shippingForm, messageInput,
                   performanceMetrics, fetching, inflight>>
    /\ UNCHANGED <<controls, filteredOrders, now, createdLabel, shell>>

\* fetchOrders after the await, on the unmounted component: its setState
\* calls are ignored.
fetchOrdersSettleTorn(i) ==
    /\ torn
    /\ i \in 1..Len(fetching)
    /\ fetching' = RemoveAt(Overtake(fetching, i), i)
    /\ ev' = Event("settleTorn", fetching[i], NoResponse)
    /\ UNCHANGED <<mounted, orders, selectedOrder, ui, shippingForm, messageInput,
                   performanceMetrics, inflight, torn, timers>>
    /\ UNCHANGED <<controls, filteredOrders, now, createdLabel, shell>>

\* the handler whose request r is
HandlerOf(r) ==
    CASE r.kind = "accept" -> "acceptOrder"
      [] r.kind = "reject" -> "rejectOrder"
      [] r.kind = "shipping" -> "submitShippingInfo"
      [] r.kind = "messages" -> "sendMessage"
      [] OTHER -> ""

\* Any other handler after its await, on the unmounted component: its
\* setState calls are ignored, its calls of fetchOrders() and
\* fetchOrderDetails(orderId) still send their requests.
SettleTorn(r, res) ==
    LET ok == res.kind = "ok"
        list == ok /\ r.kind \in {"accept", "reject", "shipping"}
        detail == ok /\ r.kind \in {"accept", "shipping", "messages"}
    IN  /\ torn
        /\ BagIn(r, inflight)
        /\ (list /\ detail) => Room(1)
        /\ fetching' = IF list THEN Append(fetching, ListFetch("action")) ELSE fetching
        /\ inflight' = IF detail
                       THEN Send(Take(inflight, r), Request("order", r.id, HandlerOf(r)))
                       ELSE Take(inflight, r)
        /\ ev' = Event("settleTorn", r, res)
        /\ UNCHANGED <<mounted, orders, selectedOrder, ui, shippingForm, messageInput,
                       performanceMetrics, torn, timers>>
        /\ UNCHANGED <<controls, filteredOrders, now, createdLabel, shell>>

\* ---- SpecTeardown: the panel is mounted, used and unmounted
NextTeardown ==
    \/ Mount
    \/ PollTick
    \/ Unmount
    \/ \E i \in 1..Len(fetching), res \in {Ok(OrderList(LoadedList)), Http} :
          fetchOrdersSettle(i, res)
    \/ \E r \in BagToSet(inflight) : fetchPerformanceMetricsSettle(r, Ok(NoOrder))
    \/ ViewDetails(Order("ORD-1", "pending"))
    \/ \E r \in BagToSet(inflight) : fetchOrderDetailsSettle(r, Ok(Order(r.id, "pending")))
    \/ acceptOrder
    \/ \E r \in BagToSet(inflight), res \in {Ok(NoOrder), Http} : acceptOrderSettle(r, res)
    \/ Tick
    \/ ErrorTimeout
    \/ SuccessTimeout
    \/ \E i \in 1..Len(fetching) : fetchOrdersSettleTorn(i)
    \/ \E r \in BagToSet(inflight), res \in {Ok(NoOrder), Http} : SettleTorn(r, res)

SpecTeardown == Init /\ [][NextTeardown]_vars

\* C13: once the panel is unmounted the polling interval never fires and no
\* notification timer fires; the state cells stay as they were, and a list
\* fetch is dispatched only by the continuation of a request that was in
\* flight.
C13_NoScheduledWorkAfterTeardown ==
    [][torn =>
          /\ ev'.op \notin {"mount", "poll", "errorTimeout", "successTimeout"}
          /\ ui' = ui
          /\ torn'
          /\ Len(fetching') > Len(fetching) => ev'.op = "settleTorn"]_vars

\* The panel was unmounted with both notifications shown and a request in
\* flight, which then settled: both notifications are as they were.
C13_Witness ==
    /\ torn
    /\ ev.op = "settleTorn"
    /\ ui.errorNotification # Null
    /\ ui.successNotification # Null

\* ---- SpecPolling: the mount effect and its interval, with the scheduling
\* the runtime gives them: React runs the mount effect, the interval fires
\* for as long as it is not cleared, and a request in flight settles.
NextPolling ==
    \/ Mount
    \/ PollTick
    \/ Unmount
    \/ \E i \in 1..Len(fetching), res \in {Ok(OrderList(LoadedList)), Http, Thrown("")} :
          fetchOrdersSettle(i, res)
    \/ \E r \in BagToSet(inflight), res \in {Ok(NoOrder), Http} :
          fetchPerformanceMetricsSettle(r, res)
    \/ Tick
    \/ ErrorTimeout
    \/ DismissError
    \/ \E i \in 1..Len(fetching) : fetchOrdersSettleTorn(i)
    \/ \E r \in BagToSet(inflight) : SettleTorn(r, Ok(NoOrder))

RequestsSettle ==
    \/ \E i \in 1..Len(fetching), res \in {Ok(OrderList(LoadedList)), Http, Thrown("")} :
          fetchOrdersSettle(i, res)
    \/ \E r \in BagToSet(inflight), res \in {Ok(NoOrder), Http} :
          fetchPerformanceMetricsSettle(r, res)

SpecPolling ==
    /\ Init
    /\ [][NextPolling]_vars
    /\ WF_vars(Mount)
    /\ WF_vars(PollTick)
    /\ WF_vars(RequestsSettle)

\* C12: the mount effect dispatches one list fetch and every tick of the
\* interval dispatches one more, whatever is in flight and whatever failed
\* before; and unless the panel is unmounted, ticks keep dispatching list
\* fetches for ever.
C12_PollsForever ==
    /\ [][ev'.op \in {"mount", "poll"} =>
            fetching' = Append(fetching, ListFetch(ev'.op))]_vars
    /\ ([]<>torn \/ []<><<PollTick>>_vars)

\* A tick dispatched its fetch while the fetch of the tick before was still
\* in flight and after the list fetch before that had failed.
C12_Witness ==
    /\ ev.op = "poll"
    /\ ~torn
    /\ Len(fetching) = 2
    /\ fetching[1].by = "poll"
    /\ fetching[2].by = "poll"
    /\ orders = OrderList(<<>>)

\* ---- SpecNotifications: the two banners, their timers and what sets and
\* clears them, with time passing in seconds
NextNotifications ==
    \/ PollTick
    \/ \E i \in 1..Len(fetching), res \in {Ok(OrderList(LoadedList)), Http} :
          fetchOrdersSettle(i, res)
    \/ ViewDetails(Order("ORD-1", "pending"))
    \/ \E r \in BagToSet(inflight), res \in {Ok(Order("ORD-1", "pending")), Http} :
          fetchOrderDetailsSettle(r, res)
    \/ acceptOrder
    \/ \E r \in BagToSet(inflight), res \in {Ok(NoOrder), Http} : acceptOrderSettle(r, res)
    \/ Tick
    \/ ErrorTimeout
    \/ SuccessTimeout
    \/ DismissError
    \/ DismissSuccess

SpecNotifications == InitLoaded /\ [][NextNotifications]_vars

\* the step just taken set the error notification: a request other than the
\* metrics request failed (every catch block sets it, lines 879-885, 907-912,
\* 956-962, 985-991, 1042-1048, 1080-1086)
SetsError ==
    /\ ev'.op \in {"fetchOrders.settle", "fetchOrderDetails.settle", "acceptOrder.settle",
                   "rejectOrder.settle", "submitShippingInfo.settle", "sendMessage.settle"}
    /\ ev'.res.kind \in {"http", "throw"}

\* the step just taken set the success notification: a mutating request
\* succeeded (lines 950-955, 979-984, 1026-1041, 1074-1079)
SetsSuccess ==
    /\ ev'.op \in {"acceptOrder.settle", "rejectOrder.settle",
                   "submitShippingInfo.settle", "sendMessage.settle"}
    /\ ev'.res.kind = "ok"

\* C14 as claimed: every time a notification of a kind is set, its dismiss
\* timer is restarted with the full delay (3 s success, 5 s error), also when
\* the new text equals the text currently shown.
C14_Original ==
    [][/\ SetsError => timers'.error = ErrorDelay
       /\ SetsSuccess => timers'.success = SuccessDelay]_vars

\* C14 amended: each kind is one slot that a newer notification overwrites;
\* its dismiss timer is restarted with the full delay (3 s success, 5 s
\* error) every time the slot's text changes, and keeps running, not
\* restarted, when the slot is set to the text it already shows; the timer
\* clears the slot only when its delay has fully elapsed.
C14_TimerRestartsOnChange ==
    [][/\ SetsError =>
            /\ ui'.errorNotification # Null
            /\ timers'.error = IF ui'.errorNotification = ui.errorNotification
                               THEN timers.error ELSE ErrorDelay
       /\ SetsSuccess =>
            /\ ui'.successNotification # Null
            /\ timers'.success = IF ui'.successNotification = ui.successNotification
                                 THEN timers.success ELSE SuccessDelay
       /\ ev'.op = "errorTimeout" => timers.error = 0 /\ ui'.errorNotification = Null
       /\ ev'.op = "successTimeout" => timers.success = 0 /\ ui'.successNotification = Null
       /\ ev'.op = "tick" =>
            /\ ui.errorNotification # Null => timers'.error = timers.error - 1
            /\ ui.successNotification # Null => timers'.success = timers.success - 1]_vars

\* The error slot was set again to the text it already showed after part of
\* its delay had passed, and the timer went on from where it was.
C14_Witness ==
    /\ ev.op = "fetchOrderDetails.settle"
    /\ ev.res.kind = "http"
    /\ ui.errorNotification = "Failed to load order details"
    /\ timers.error \in 1..(ErrorDelay - 1)

\* C15: while the panel is mounted the loading flag is true exactly when at
\* least one list fetch is in flight, overlapping fetches included, and a
\* step of a detail fetch, the metrics fetch or a mutating request leaves it
\* as it was.
C15_LoadingWhileFetching ==
    /\ []((mounted /\ ~torn) => (ui.loading <=> Len(fetching) > 0))
    /\ [][ev'.op \in {"viewDetails", "fetchOrderDetails.settle",
                      "fetchPerformanceMetrics.settle", "acceptOrder", "rejectOrder",
                      "acceptOrder.settle", "rejectOrder.settle"}
            => ui'.loading = (ui.loading \/ Len(fetching') > Len(fetching))]_vars

\* ---- SpecModals: the four modal flags, the list and the selected order,
\* from a loaded list; the server may have moved an order on since.
NextModals ==
    \/ PollTick
    \/ \E i \in 1..Len(fetching), res \in {Ok(OrderList(LoadedList)), Http} :
          fetchOrdersSettle(i, res)
    \/ \E o \in Orders : ViewDetails(o)
    \/ \E r \in BagToSet(inflight) :
          \E res \in DetailResponses(r.id, {"accepted", "shipped"}) :
             fetchOrderDetailsSettle(r, res)
    \/ \E o \in Orders : CardMessage(o)
    \/ CloseDetail
    \/ OpenMessage
    \/ CloseMessage
    \/ OpenShipping
    \/ CloseShipping
    \/ OpenProof

SpecModals == InitLoaded /\ [][NextModals]_vars

ModalFlags == {"orderDetailOpen", "shippingModalOpen", "proofUploadOpen", "messageModalOpen"}

\* the modal flags that are true in a UI state
OpenModals(u) == {f \in ModalFlags : u[f]}

\* C16 as claimed: at most one of the four modal flags is true in every
\* reachable state.
C16_Original == Cardinality(OpenModals(ui)) <= 1

\* C16 amended: every step sets at most one modal flag to true, and opening
\* the shipping, proof-upload or message modal from the detail view leaves
\* orderDetailOpen true, so several flags are true at once.
C16_OneOpenedPerStep ==
    [][/\ Cardinality(OpenModals(ui') \ OpenModals(ui)) <= 1
       /\ ev'.op \in {"openMessage", "openShipping", "openProof"}
            => /\ ui.orderDetailOpen /\ ui'.orderDetailOpen
               /\ OpenModals(ui) \subseteq OpenModals(ui')]_vars

\* The shipping modal was opened over the detail view: both flags are true.
C16_Witness ==
    /\ ev.op = "openShipping"
    /\ ui.orderDetailOpen
    /\ ui.shippingModalOpen

\* C17: for a selected order whose status is shipped, the update-proof
\* action dispatches a request to the backend (the re-upload of proof
\* images) for that order and leaves the order's status shipped.
C17_UpdateProofUploads ==
    [][ev'.op = "openProof" =>
          /\ selectedOrder.status = "shipped"
          /\ selectedOrder' = selectedOrder
          /\ orders' = orders
          /\ \E r \in BagToSet(inflight') :
                /\ r.id = selectedOrder.id
                /\ CopiesIn(r, inflight') > CopiesIn(r, inflight)]_vars

\* the number of GET /performance requests in flight
PerformancePending(bag) ==
    BagCardinality([r \in {x \in BagToSet(bag) : x.kind = "performance"} |-> bag[r]])

\* C18: GET /performance is dispatched once, by the mount effect, and by no
\* other step (polling tick, list or detail fetch, accept, reject, their
\* responses); the held metrics change only when that request's response is
\* applied with success.
C18_MetricsOnce ==
    [][/\ ev'.op = "mount" =>
            /\ ~mounted
            /\ PerformancePending(inflight) = 0
            /\ PerformancePending(inflight') = 1
       /\ ev'.op # "mount" => PerformancePending(inflight') <= PerformancePending(inflight)
       /\ performanceMetrics' # performanceMetrics =>
            /\ ev'.op = "fetchPerformanceMetrics.settle"
            /\ ev'.res.kind = "ok"
            /\ ev'.req.by = "mount"]_vars

\* The metrics request failed, and a later polling tick has sent no other:
\* the metrics are still null.
C18_Witness ==
    /\ ev.op = "poll"
    /\ mounted
    /\ performanceMetrics = "null"
    /\ PerformancePending(inflight) = 0

\* ---- SpecErrors: every request of the panel when the backend refuses it.
\* Starts as InitDrafted, but the metrics response has not arrived yet.
InitMetricsPending ==
    /\ mounted = TRUE
    /\ orders = OrderList(LoadedList)
    /\ selectedOrder = Order("ORD-2", "accepted")
    /\ ui = [InitUi EXCEPT !.loading = FALSE, !.orderDetailOpen = TRUE,
                           !.shippingModalOpen = TRUE, !.messageModalOpen = TRUE]
    /\ shippingForm = DraftedShippingForm
    /\ messageInput = <<"h", "i">>
    /\ performanceMetrics = "null"
    /\ fetching = <<>>
    /\ inflight = SetToBag({Request("performance", "", "mount")})
    /\ torn = FALSE
    /\ timers = NoTimers
    /\ ev = Event("editMessage", Click(""), NoResponse)
    /\ Defaults

NextErrors ==
    \/ PollTick
    \/ \E i \in 1..Len(fetching), res \in {Ok(OrderList(LoadedList))} \cup Failures :
          fetchOrdersSettle(i, res)
    \/ \E r \in BagToSet(inflight), res \in PlainResponses :
          fetchPerformanceMetricsSettle(r, res)
    \/ ViewDetails(Order("ORD-1", "pending"))
    \/ \E r \in BagToSet(inflight) :
          \E res \in DetailResponses(r.id, {"pending"}) : fetchOrderDetailsSettle(r, res)
    \/ acceptOrder
    \/ \E r \in BagToSet(inflight), res \in Failures : acceptOrderSettle(r, res)
    \/ rejectOrder
    \/ \E r \in BagToSet(inflight), res \in Failures : rejectOrderSettle(r, res)
    \/ submitShippingInfo
    \/ \E r \in BagToSet(inflight), res \in Failures : submitShippingInfoSettle(r, res)
    \/ sendMessage
    \/ \E r \in BagToSet(inflight), res \in Failures : sendMessageSettle(r, res)
    \/ DismissError

SpecErrors == InitMetricsPending /\ [][NextErrors]_vars

\* the step just taken applied a failed response to the handler named op
Failed(op) == ev'.op = op /\ ev'.res.kind \in {"http", "throw"}

\* C19 as claimed: every failed request of the panel, the metrics request
\* included, sets the error notification.
C19_Original ==
    [][(SetsError \/ Failed("fetchPerformanceMetrics.settle"))
          => ui'.errorNotification \notin {Null, ""}]_vars

\* C19 amended: a failed list, detail, accept, reject, shipping or message
\* request sets the error notification, which the dismiss button clears; a
\* failed metrics request is silent: it changes neither the notifications
\* nor any other state the panel holds.
C19_FailuresNotified ==
    [][/\ SetsError => ui'.errorNotification \notin {Null, ""}
       /\ ev'.op = "dismissError" => ui.errorNotification # Null /\ ui'.errorNotification = Null
       /\ Failed("fetchPerformanceMetrics.settle") =>
            /\ ui' = ui
            /\ performanceMetrics' = performanceMetrics
            /\ orders' = orders
            /\ selectedOrder' = selectedOrder]_vars

\* The metrics request has failed and no error notification is shown.
C19_Witness ==
    /\ ev.op = "fetchPerformanceMetrics.settle"
    /\ ev.res.kind \in {"http", "throw"}
    /\ ui.errorNotification = Null
    /\ performanceMetrics = "null"

\* C20: applying a list response, success or failure, leaves the selected
\* order as it was, and applying a detail response leaves the order list as
\* it was, so the two may hold different statuses for the same order id.
C20_IndependentSnapshots ==
    [][/\ ev'.op = "fetchOrders.settle" => selectedOrder' = selectedOrder
       /\ ev'.op = "fetchOrderDetails.settle" => orders' = orders]_vars

\* A detail response has been applied and the list still holds the order
\* with another status.
C20_Witness ==
    /\ ev.op = "fetchOrderDetails.settle"
    /\ ev.res.kind = "ok"
    /\ \E k \in DOMAIN orders.list :
          /\ orders.list[k].id = selectedOrder.id
          /\ orders.list[k].status # selectedOrder.status

\* A list fetch has failed, emptying the list, and the selected order is
\* still held.
C20_WitnessListFailure ==
    /\ ev.op = "fetchOrders.settle"
    /\ ev.res.kind = "http"
    /\ orders = OrderList(<<>>)
    /\ selectedOrder # NoOrder

\* C24: a shipping submission is applied whole or not at all. The response
\* of a successful shipping request closes the shipping modal, resets the
\* draft to EmptyShippingForm and sets the success notification in one step;
\* a failed response and a draft rejected by the validation leave the modal
\* flag and the draft (fields and images) as they were and set no success
\* notification; and no other step than the successful response resets a
\* draft that holds something, or sets that success notification.
C24_ShippingAllOrNothing ==
    [][/\ (ev'.op = "submitShippingInfo.settle" /\ ev'.res.kind = "ok") =>
            /\ ~ui'.shippingModalOpen
            /\ shippingForm' = EmptyShippingForm
            /\ ui'.successNotification = "Shipping information added successfully!"
       /\ (\/ ev'.op = "submitShippingInfo"
           \/ ev'.op = "submitShippingInfo.settle" /\ ev'.res.kind # "ok") =>
            /\ ui'.shippingModalOpen = ui.shippingModalOpen
            /\ shippingForm' = shippingForm
            /\ ui'.successNotification = ui.successNotification
       /\ (\/ ui.successNotification # ui'.successNotification /\ ui'.successNotification # Null
           \/ (shippingForm' = EmptyShippingForm
                 /\ ShippingIncomplete(shippingForm') /\ ~ShippingIncomplete(shippingForm))) =>
            (ev'.op = "submitShippingInfo.settle" /\ ev'.res.kind = "ok")]_vars

\* A shipping request has failed: the modal is still open and the draft
\* still holds its three fields and its image.
C24_Witness ==
    /\ ev.op = "submitShippingInfo.settle"
    /\ ev.res.kind \in {"http", "throw"}
    /\ ui.shippingModalOpen
    /\ ~ShippingIncomplete(shippingForm)
    /\ shippingForm.proofImages # <<>>

\* A shipping request has succeeded: modal closed, draft empty, success shown.
C24_WitnessSuccess ==
    /\ ev.op = "submitShippingInfo.settle"
    /\ ev.res.kind = "ok"
    /\ ~ui.shippingModalOpen
    /\ shippingForm = EmptyShippingForm
    /\ ui.successNotification # Null

\* C25: every POST /orders/{id}/shipping is dispatched for a selected order
\* whose held status is accepted, under any interleaving of detail
\* responses, card clicks and modal actions.
C25_ShippingOnlyForAccepted ==
    [][(/\ ev'.op = "submitShippingInfo"
        /\ \E r \in BagToSet(inflight') :
              r.kind = "shipping" /\ CopiesIn(r, inflight') > CopiesIn(r, inflight))
          => selectedOrder.status = "accepted"]_vars

\* C26: while the detail view is closed (by Close or by a successful
\* reject), the response of a detail fetch dispatched as the re-fetch of an
\* accept, a shipping submission or a message send neither reopens it nor
\* replaces the selected order: only the response of a fetch dispatched by
\* the user's click on an order does.
C26_ClosedStaysClosed ==
    [][(/\ ev'.op = "fetchOrderDetails.settle"
        /\ \/ ~ui.orderDetailOpen /\ ui'.orderDetailOpen
           \/ ~ui.orderDetailOpen /\ selectedOrder' # selectedOrder)
          => ev'.req.by = "viewDetails"]_vars

\* C27: whenever the loading flag is false the order list is a defined
\* sequence, under any interleaving of overlapping list fetches that succeed
\* or fail; the list is null only before the first list fetch has settled:
\* every settled list fetch leaves it defined and it never becomes null
\* again.
C27_ListDefinedWhenLoaded ==
    /\ [](~ui.loading => ~orders.isNull)
    /\ [][/\ ev'.op = "fetchOrders.settle" => ~orders'.isNull
          /\ ~orders.isNull => ~orders'.isNull]_vars

\* A list response without a data field was applied while another list
\* fetch was in flight: loading is false and the list is the empty sequence.
C27_Witness ==
    /\ ev.op = "fetchOrders.settle"
    /\ ev.res.kind = "ok"
    /\ ev.res.data.isNull
    /\ Len(fetching) > 0
    /\ ~ui.loading
    /\ orders = OrderList(<<>>)

\* ---- SpecDismiss: SpecNotifications with a validation failure added,
\* while the panel stays mounted and its timers fire: time passes and a
\* timer whose delay has elapsed runs its callback.
NextDismiss ==
    \/ NextNotifications
    \/ CardMessage(Order("ORD-1", "pending"))
    \/ CloseMessage
    \/ sendMessage

SpecDismiss ==
    /\ InitLoaded
    /\ [][NextDismiss]_vars
    /\ WF_vars(Tick)
    /\ WF_vars(ErrorTimeout)
    /\ WF_vars(SuccessTimeout)

\* the step just taken was rejected by a validation (nothing dispatched)
Rejected ==
    /\ ev'.op \in {"submitShippingInfo", "sendMessage"}
    /\ inflight' = inflight

\* C28: while the panel stays mounted and timers fire, an error notification
\* that is shown is eventually cleared unless error notifications keep being
\* set forever, and likewise a success notification.
C28_EventuallyCleared ==
    /\ \/ []<><<SetsError \/ Rejected>>_vars
       \/ (ui.errorNotification # Null) ~> (ui.errorNotification = Null)
    /\ \/ []<><<SetsSuccess>>_vars
       \/ (ui.successNotification # Null) ~> (ui.successNotification = Null)

\* The error timer has run out and cleared the error notification while the
\* message modal, whose validation sets one, is open.
C28_Witness ==
    /\ ev.op = "errorTimeout"
    /\ ui.errorNotification = Null
    /\ timers.error = 0
    /\ ui.messageModalOpen

\* ---- SpecDrafts: the two drafts across modal actions, changes of the
\* selected order and fetch responses, from the state with both forms filled
NextDrafts ==
    \/ CloseShipping
    \/ CloseMessage
    \/ OpenShipping
    \/ CardMessage(Order("ORD-1", "pending"))
    \/ ViewDetails(Order("ORD-2", "accepted"))
    \/ \E r \in BagToSet(inflight) :
          \E res \in {Ok(Order(r.id, "accepted")), Http} : fetchOrderDetailsSettle(r, res)
    \/ \E i \in 1..Len(fetching) : fetchOrdersSettle(i, Ok(OrderList(LoadedList)))
    \/ EditShipping("notes", "fragile")
    \/ AddProofImages(<<"photo.png">>)
    \/ EditMessage(<<"h", "i">>)
    \/ submitShippingInfo
    \/ \E r \in BagToSet(inflight), res \in {Ok(NoOrder), Http} :
          submitShippingInfoSettle(r, res)
    \/ sendMessage
    \/ \E r \in BagToSet(inflight), res \in {Ok(NoOrder), Http} : sendMessageSettle(r, res)

SpecDrafts == InitDrafted /\ [][NextDrafts]_vars

\* C29: the shipping draft changes only at an edit of one of its fields or
\* images and at the successful response of a shipping submission, and the
\* message draft only at an edit of the text and at the successful response
\* of a message send; closing or cancelling either modal, changing the
\* selected order and applying any fetch response leave both unchanged.
C29_DraftsKept ==
    [][/\ shippingForm' # shippingForm =>
            \/ ev'.op \in {"editShipping", "addProofImages", "removeProofImage"}
            \/ ev'.op = "submitShippingInfo.settle" /\ ev'.res.kind = "ok"
       /\ messageInput' # messageInput =>
            \/ ev'.op = "editMessage"
            \/ ev'.op = "sendMessage.settle" /\ ev'.res.kind = "ok"
       /\ ev'.op \in {"closeShipping", "closeMessage", "cardMessage", "viewDetails",
                      "fetchOrderDetails.settle", "fetchOrders.settle", "openShipping"}
            => shippingForm' = shippingForm /\ messageInput' = messageInput]_vars

\* The message form has been opened from the card of another order than
\* the one the drafts were typed for, and both drafts are still there.
C29_Witness ==
    /\ ev.op = "cardMessage"
    /\ selectedOrder.id = "ORD-1"
    /\ ui.messageModalOpen
    /\ messageInput = <<"h", "i">>
    /\ shippingForm = DraftedShippingForm

\* ------------------------------------------------------- list controls
\* The render after a change of a list control: filteredOrders is computed
\* anew from the held list and the three controls.
Recompute(status, query, key) ==
    LET v == Visible(orders, status, query, key)
    IN  /\ orders' = v.orders
        /\ filteredOrders' = v.filteredOrders
        /\ createdLabel' = formatTime(selectedOrder.createdAt, now)
        /\ UNCHANGED <<mounted, selectedOrder, ui, shippingForm, messageInput,
                       performanceMetrics, fetching, inflight, now, shell>>
        /\ Alive

\* <select value={filterStatus} onChange=...>
SetFilterStatus(status) ==
    /\ mounted
    /\ filterStatus' = status
    /\ ev' = Event("setFilterStatus", Click(""), NoResponse)
    /\ UNCHANGED <<searchQuery, sortBy>>
    /\ Recompute(status, searchQuery, sortBy)

\* <input type="text" value={searchQuery} onChange=...>
SetSearchQuery(query) ==
    /\ mounted
    /\ searchQuery' = query
    /\ ev' = Event("setSearchQuery", Click(""), NoResponse)
    /\ UNCHANGED <<filterStatus, sortBy>>
    /\ Recompute(filterStatus, query, sortBy)

\* <select value={sortBy} onChange=...>
SetSortBy(key) ==
    /\ mounted
    /\ sortBy' = key
    /\ ev' = Event("setSortBy", Click(""), NoResponse)
    /\ UNCHANGED <<filterStatus, searchQuery>>
    /\ Recompute(filterStatus, searchQuery, key)

\* ---- SpecFilter: the visible list, for fetched lists of up to MaxListLen
\* orders among three that share names, amounts and creation instants.
FilterOrders ==
    {FullOrder("ORD-1", "Amina", "pending", 500, 100),
     FullOrder("ORD-2", "Dan", "accepted", 500, 200),
     FullOrder("ORD-3", "Amina", "pending", 900, 100)}

FilterLists == UNION {[1..n -> FilterOrders] : n \in 0..MaxListLen}

\* the options of the status select, of the sort select, and typed queries
StatusOptions == {"all", "pending", "accepted", "shipped", "completed", "dispute"}
SortOptions == {"newest", "oldest", "amount-high", "amount-low"}
Queries == {"", "ord", "D", "MIN", "2", " "}

InitFilter ==
    /\ mounted = TRUE
    /\ orders \in {OrderList(l) : l \in FilterLists}
    /\ selectedOrder = NoOrder
    /\ ui = [InitUi EXCEPT !.loading = FALSE]
    /\ shippingForm = EmptyShippingForm
    /\ messageInput = <<>>
    /\ performanceMetrics = "metrics"
    /\ fetching = <<>>
    /\ inflight = EmptyBag
    /\ torn = FALSE
    /\ timers = NoTimers
    /\ ev = Event("fetchOrders.settle", ListFetch("mount"), Ok(orders))
    /\ Defaults

NextFilter ==
    \/ \E status \in StatusOptions : SetFilterStatus(status)
    \/ \E query \in Queries : SetSearchQuery(query)
    \/ \E key \in SortOptions : SetSortBy(key)
    \/ PollTick
    \/ \E i \in 1..Len(fetching) :
          \E res \in {Ok(OrderList(<<>>)), Http} : fetchOrdersSettle(i, res)

SpecFilter == InitFilter /\ [][NextFilter]_vars

\* how many times x occurs in the sequence s
Occurrences(s, x) == Cardinality({k \in 1..Len(s) : s[k] = x})

\* the lower-cased query occurs in the lower-cased string
OccursIn(query, string) ==
    LET q == toLowerCase(Chars(query))
        t == toLowerCase(Chars(string))
    IN  \E from \in 1..(Len(t) + 1), to \in 0..Len(t) :
           /\ to - from + 1 = Len(q)
           /\ \A k \in 1..Len(q) : t[from + k - 1] = q[k]

\* the two stages of C21
Passes(o) ==
    /\ filterStatus = "all" \/ o.status = filterStatus
    /\ searchQuery = "" \/ OccursIn(searchQuery, o.id) \/ OccursIn(searchQuery, o.buyerName)

\* C21: the visible list holds the orders of the held list that pass the
\* status filter (all, or the same status) and the search (empty query, or
\* the lower-cased query within the lower-cased id or buyer name), each as
\* many times as the held list holds it, and no other; with filter `all`
\* and an empty query it has the elements of the whole held list.
C21_VisibleIsFiltered ==
    /\ \A o \in FilterOrders :
          Occurrences(filteredOrders, o) =
             IF Passes(o) THEN Occurrences(orders.list, o) ELSE 0
    /\ Len(filteredOrders) <= Len(orders.list)
    /\ (filterStatus = "all" /\ searchQuery = "") =>
          /\ Len(filteredOrders) = Len(orders.list)
          /\ \A o \in FilterOrders :
                Occurrences(filteredOrders, o) = Occurrences(orders.list, o)

\* The query MIN in capitals keeps Amina's pending orders and drops Dan's.
C21_Witness ==
    /\ searchQuery = "MIN"
    /\ filterStatus = "pending"
    /\ Len(orders.list) = 3
    /\ Len(filteredOrders) = 2
    /\ \A k \in 1..Len(filteredOrders) : filteredOrders[k].buyerName = "Amina"

\* the field the sort key orders by
KeyOf(o) == IF sortBy \in {"newest", "oldest"} THEN o.createdAt ELSE o.amount

\* the key descends along the visible list (newest, amount-high) or ascends
Descending == sortBy \in {"newest", "amount-high"}

\* C22: the visible list is ordered by the sort key (newest and amount-high
\* descending, oldest and amount-low ascending); the orders with one same
\* key value stand in the order the held list has them; computing the
\* visible list again from the same held list and controls gives the same
\* sequence, and a change of a control leaves the held list as it was.
C22_VisibleIsSorted ==
    /\ [](/\ \A i, j \in 1..Len(filteredOrders) :
                i < j => IF Descending
                         THEN KeyOf(filteredOrders[i]) >= KeyOf(filteredOrders[j])
                         ELSE KeyOf(filteredOrders[i]) <= KeyOf(filteredOrders[j])
          /\ \A o \in FilterOrders :
                SelectSeq(filteredOrders, LAMBDA x : KeyOf(x) = KeyOf(o))
                   = SelectSeq(orders.list, LAMBDA x : Passes(x) /\ KeyOf(x) = KeyOf(o))
          /\ filteredOrders
                = Visible(Visible(orders, filterStatus, searchQuery, sortBy).orders,
                          filterStatus, searchQuery, sortBy).filteredOrders)
    /\ [][ev'.op \in {"setFilterStatus", "setSearchQuery", "setSortBy"}
             => orders' = orders]_vars

\* Highest amount first: the 900 order leads and the two 500 orders follow
\* in the order of the held list, which is not the order of their ids.
C22_Witness ==
    /\ sortBy = "amount-high"
    /\ Len(orders.list) = 3
    /\ Len(filteredOrders) = 3
    /\ orders.list[1].id = "ORD-2"
    /\ orders.list[2].id = "ORD-3"
    /\ orders.list[3].id = "ORD-1"
    /\ filteredOrders[1].id = "ORD-3"
    /\ filteredOrders[2].id = "ORD-2"
    /\ filteredOrders[3].id = "ORD-1"

\* ---------------------------------------------------------------- clock
\* Time passes and the panel renders again: formatTime reads new Date().
\* Steps shorter than an hour are taken in the first minutes of an hour
\* only, which keeps the instants visited few.
Elapse(ms) ==
    /\ mounted
    /\ now + ms - getTime(selectedOrder.createdAt) <= MaxAgeDays * 86400 * 1000
    /\ ms < 3600 * 1000 => (now + ms) % (3600 * 1000) < 3 * 60 * 1000
    /\ now' = now + ms
    /\ createdLabel' = formatTime(selectedOrder.createdAt, now')
    /\ ev' = Event("elapse", Click(""), NoResponse)
    /\ UNCHANGED <<mounted, orders, selectedOrder, ui, shippingForm, messageInput,
                   performanceMetrics, fetching, inflight, controls, filteredOrders, shell>>
    /\ Alive

\* ---- SpecTime: the time label of the selected order, for ages around
\* every boundary of formatTime
AgeBoundaries ==
    {0, 59, 60, 3599, 3600, 86399, 86400, 86401, 172799, 172800, 518400, 604799, 604800}

InitTime ==
    /\ mounted = TRUE
    /\ orders = OrderList(LoadedList)
    /\ selectedOrder \in {FullOrder("ORD-1", "Amina", "pending", 500, at) : at \in {0, 100}}
    /\ ui = [InitUi EXCEPT !.loading = FALSE, !.orderDetailOpen = TRUE]
    /\ shippingForm = EmptyShippingForm
    /\ messageInput = <<>>
    /\ performanceMetrics = "metrics"
    /\ fetching = <<>>
    /\ inflight = EmptyBag
    /\ torn = FALSE
    /\ timers = NoTimers
    /\ ev = Event("fetchOrderDetails.settle", Request("order", "ORD-1", "viewDetails"),
                  Ok(selectedOrder))
    /\ filterStatus = "all"
    /\ searchQuery = ""
    /\ sortBy = "newest"
    /\ filteredOrders = Visible(orders, "all", "", "newest").filteredOrders
    /\ now \in {getTime(selectedOrder.createdAt) + d * 1000 + ms :
                   d \in AgeBoundaries, ms \in {0, 999}}
    /\ createdLabel = formatTime(selectedOrder.createdAt, now)
    /\ activeTab = "home"
    /\ withdrawalModal = FALSE
    /\ shareModal = FALSE
    /\ withdrawalAmount = <<>>
    /\ wallet = InitWallet

NextTime ==
    \/ Elapse(60 * 1000)
    \/ Elapse(3600 * 1000)
    \/ Elapse(86400 * 1000)

SpecTime == InitTime /\ [][NextTime]_vars

\* the whole seconds between the creation of the selected order and now
Age == (now - selectedOrder.createdAt * 1000) \div 1000

\* C23 as claimed: "yesterday" for an age of exactly 86400 seconds, and
\* floor(d / 86400) "d ago" for every other age from one day to under seven.
C23_Original ==
    Age >= 0 =>
       createdLabel =
          IF Age < 60 THEN "just now"
          ELSE IF Age < 3600 THEN ToString(Age \div 60) \o "m ago"
          ELSE IF Age < 86400 THEN ToString(Age \div 3600) \o "h ago"
          ELSE IF Age = 86400 THEN "yesterday"
          ELSE IF Age < 604800 THEN ToString(Age \div 86400) \o "d ago"
          ELSE toLocaleDateString(selectedOrder.createdAt)

\* C23 amended: for an age of d whole seconds, d >= 0, formatTime returns
\* "just now" if d < 60; floor(d/60) "m ago" if d < 3600; floor(d/3600)
\* "h ago" if d < 86400; "yesterday" for the whole second day,
\* 86400 <= d < 172800; floor(d/86400) "d ago" if 172800 <= d < 604800; and
\* the absolute date from 604800 on.
C23_FormatTime ==
    Age >= 0 =>
       createdLabel =
          IF Age < 60 THEN "just now"
          ELSE IF Age < 3600 THEN ToString(Age \div 60) \o "m ago"
          ELSE IF Age < 86400 THEN ToString(Age \div 3600) \o "h ago"
          ELSE IF Age < 172800 THEN "yesterday"
          ELSE IF Age < 604800 THEN ToString(Age \div 86400) \o "d ago"
          ELSE toLocaleDateString(selectedOrder.createdAt)

\* One day and one second after the creation the label is still "yesterday".
C23_Witness ==
    /\ Age = 86401
    /\ createdLabel = "yesterday"

\* The boundaries the claim lists: 59 s, 60 s, 3599 s, 3600 s, one day, six
\* days and seven days.
C23_WitnessSixDays ==
    /\ Age = 518400
    /\ createdLabel = "6d ago"

\* ------------------------------------------------------ dashboard shell
\* SellerDashboard, the component around the panels. Its handlers write
\* none of the state of OrdersTab.
panel == <<mounted, orders, selectedOrder, ui, shippingForm, messageInput,
           performanceMetrics, fetching, inflight, torn, timers, controls,
           filteredOrders, now, createdLabel>>

\* navItems
Tabs == {"home", "orders", "wallet", "disputes", "social", "settings", "support"}

\* sidebar button: setActiveTab(item.id); the withdrawal modal, when open,
\* covers the page
SetActiveTab(tab) ==
    /\ ~withdrawalModal
    /\ activeTab' = tab
    /\ ev' = Event("setActiveTab", Click(tab), NoResponse)
    /\ UNCHANGED <<withdrawalModal, shareModal, withdrawalAmount, wallet, panel>>

\* Withdraw buttons of the home and wallet tabs, disabled={wallet.available <= 0}
OpenWithdrawal ==
    /\ activeTab \in {"home", "wallet"}
    /\ ~withdrawalModal
    /\ wallet.available > 0
    /\ withdrawalModal' = TRUE
    /\ ev' = Event("openWithdrawal", Click(""), NoResponse)
    /\ UNCHANGED <<activeTab, shareModal, withdrawalAmount, wallet, panel>>

\* X / Cancel of the withdrawal modal
CloseWithdrawal ==
    /\ withdrawalModal
    /\ withdrawalModal' = FALSE
    /\ ev' = Event("closeWithdrawal", Click(""), NoResponse)
    /\ UNCHANGED <<activeTab, shareModal, withdrawalAmount, wallet, panel>>

\* <input type="number" onChange=...>: the value is "" or a number's text
SetWithdrawalAmount(text) ==
    /\ withdrawalModal
    /\ withdrawalAmount' = text
    /\ ev' = Event("setWithdrawalAmount", Click(""), NoResponse)
    /\ UNCHANGED <<activeTab, withdrawalModal, shareModal, wallet, panel>>

DigitOf(c) ==
    CASE c = "0" -> 0 [] c = "1" -> 1 [] c = "2" -> 2 [] c = "3" -> 3 [] c = "4" -> 4
      [] c = "5" -> 5 [] c = "6" -> 6 [] c = "7" -> 7 [] c = "8" -> 8 [] c = "9" -> 9

RECURSIVE Digits(_)
Digits(cs) ==
    IF cs = <<>> THEN 0
    ELSE Digits(SubSeq(cs, 1, Len(cs) - 1)) * 10 + DigitOf(cs[Len(cs)])

\* Number(text) for the text of a whole number; Number('') is 0
Number(cs) ==
    IF cs = <<>> THEN 0
    ELSE IF cs[1] = "-" THEN 0 - Digits(Tail(cs))
    ELSE Digits(cs)

\* what alert(...) showed
Alert(text) == [kind |-> "alert", msg |-> text, data |-> NoOrder]

\* handleWithdraw without its `Insufficient funds` test
handleWithdraw_NoFundsCheck ==
    /\ withdrawalModal
    /\ IF withdrawalAmount = <<>> \/ Number(withdrawalAmount) <= 0
       THEN /\ ev' = Event("handleWithdraw", Click(""), Alert("Please enter a valid amount"))
            /\ UNCHANGED <<withdrawalModal, withdrawalAmount>>
       ELSE /\ ev' = Event("handleWithdraw", Click(""),
                           Alert("Withdrawal functionality coming soon!"))
            /\ withdrawalModal' = FALSE
            /\ withdrawalAmount' = <<>>
    /\ UNCHANGED <<activeTab, shareModal, wallet, panel>>

\* Confirm Withdrawal: handleWithdraw
handleWithdraw ==
    /\ withdrawalModal
    /\ IF withdrawalAmount = <<>> \/ Number(withdrawalAmount) <= 0
       THEN /\ ev' = Event("handleWithdraw", Click(""), Alert("Please enter a valid amount"))
            /\ UNCHANGED <<withdrawalModal, withdrawalAmount>>
       ELSE IF Number(withdrawalAmount) > wallet.available
       THEN /\ ev' = Event("handleWithdraw", Click(""), Alert("Insufficient funds"))
            /\ UNCHANGED <<withdrawalModal, withdrawalAmount>>
       ELSE /\ ev' = Event("handleWithdraw", Click(""),
                           Alert("Withdrawal functionality coming soon!"))
            /\ withdrawalModal' = FALSE
            /\ withdrawalAmount' = <<>>
    /\ UNCHANGED <<activeTab, shareModal, wallet, panel>>

\* ---- SpecShell: the shell's withdrawal modal. The wallet is the data the
\* shell is to receive from the API; it is the handler's input, drawn here
\* from 0 (the value the source initialises it with) to MaxAvailable.
AmountTexts == {<<>>, <<"0">>, <<"1">>, <<"2">>, <<"3">>, <<"-", "1">>, <<"1", "0">>}

InitShell ==
    /\ mounted = FALSE
    /\ orders = NullOrders
    /\ selectedOrder = NoOrder
    /\ ui = InitUi
    /\ shippingForm = EmptyShippingForm
    /\ messageInput = <<>>
    /\ performanceMetrics = "null"
    /\ fetching = <<>>
    /\ inflight = EmptyBag
    /\ torn = FALSE
    /\ timers = NoTimers
    /\ ev = Event("init", Click(""), NoResponse)
    /\ filterStatus = "all"
    /\ searchQuery = ""
    /\ sortBy = "newest"
    /\ filteredOrders = <<>>
    /\ now = 0
    /\ createdLabel = formatTime(NoDate, 0)
    /\ activeTab = "home"
    /\ withdrawalModal = FALSE
    /\ shareModal = FALSE
    /\ withdrawalAmount = <<>>
    /\ wallet \in {[InitWallet EXCEPT !.available = a] : a \in 0..MaxAvailable}

NextShell ==
    \/ \E tab \in Tabs : SetActiveTab(tab)
    \/ OpenWithdrawal
    \/ CloseWithdrawal
    \/ \E text \in AmountTexts : SetWithdrawalAmount(text)
    \/ handleWithdraw

SpecShell == InitShell /\ [][NextShell]_vars

\* the entered amount is non-empty, greater than 0 and within the balance
Withdrawable ==
    /\ withdrawalAmount # <<>>
    /\ Number(withdrawalAmount) > 0
    /\ Number(withdrawalAmount) <= wallet.available

\* C30: handleWithdraw closes the withdrawal modal and clears the amount if
\* and only if the entered amount is non-empty, greater than 0 and not
\* greater than wallet.available; otherwise it leaves the modal flag and the
\* amount as they were; it never changes the active tab, the share-modal
\* flag or the wallet.
C30_HandleWithdraw ==
    [][ev'.op = "handleWithdraw" =>
          /\ IF Withdrawable
             THEN ~withdrawalModal' /\ withdrawalAmount' = <<>>
             ELSE withdrawalModal' = withdrawalModal /\ withdrawalAmount' = withdrawalAmount
          /\ activeTab' = activeTab
          /\ shareModal' = shareModal
          /\ wallet' = wallet]_vars

\* An amount above the balance was refused: the modal is open, the amount kept.
C30_Witness ==
    /\ ev.op = "handleWithdraw"
    /\ ev.res.msg = "Insufficient funds"
    /\ withdrawalModal
    /\ withdrawalAmount = <<"3">>
    /\ wallet.available = 2

\* An amount within the balance was accepted: modal closed, amount cleared.
C30_WitnessAccepted ==
    /\ ev.op = "handleWithdraw"
    /\ ev.res.msg = "Withdrawal functionality coming soon!"
    /\ ~withdrawalModal
    /\ withdrawalAmount = <<>>

====
